---- MODULE Spec2Model ----
(***************************************************************************)
(* Model of embar: the table dependency sorter (embar/_util.py), the WHERE *)
(* clause algebra (embar/query/where.py), joins (embar/query/join.py), the *)
(* SELECT / UPDATE / INSERT builders (embar/query), selections, raw SQL    *)
(* templates, rows and DDL (embar/table.py, embar/column/base.py), class   *)
(* statements with fk columns, run() / await on a built query, and the     *)
(* migrations of the Postgres clients (embar/db/pg.py).                    *)
(***************************************************************************)
EXTENDS Integers, Sequences, FiniteSets, TLC

\* The field names of the records of this module, numbered. Every record
\* constructor below lists its fields in this order.
RecordFields ==
    [user |-> 1, message |-> 2, tag |-> 3, cls |-> 4, op |-> 5, order |-> 6,
     k |-> 7, v |-> 8, i |-> 9, t |-> 10, field |-> 11, name |-> 12,
     value |-> 13, table |-> 14, on |-> 15, left |-> 16, right |-> 17, column |-> 18,
     values |-> 19, lower |-> 20, upper |-> 21, clause |-> 22, col |-> 23, nulls |-> 24,
     template |-> 25, sql |-> 26, params |-> 27, count |-> 28, raised |-> 29,
     account |-> 30, many_params |-> 31, int |-> 32, str |-> 33, bool |-> 34, null |-> 35,
     list |-> 36, datetime |-> 37, ok |-> 38, pos |-> 39, of |-> 40, item |-> 41, py |-> 42, rows |-> 43, annotation |-> 44,
     instance |-> 45, calls |-> 46,
     info |-> 47, col_type |-> 48, primary |-> 49, not_null |-> 50, default |-> 51, ref |-> 52,
     on_delete |-> 53]

\* ------------------------------------------------------------------------
\* Bounds
\* ------------------------------------------------------------------------
\* total number of columns declared over all tables handed to the sorter
MaxFk == 3
\* number of builder method calls made on one query before it is rendered
MaxCalls == 3
\* number of rows handed to one values() call, and held by the database
MaxRows == 2
\* number of fields of a Selection class
MaxFields == 2
\* number of parts (literal texts and interpolations) of a template
MaxParts == 3
\* number of run() calls and await expressions made on one built query
MaxOps == 3

\* ------------------------------------------------------------------------
\* State
\* ------------------------------------------------------------------------
VARIABLES
    \* topological_sort_tables
    tables,         \* the argument: a sequence of distinct tables
    fields,         \* table -> sequence of columns; a column is its info.ref table name or "none"
    dependencies,   \* ref table -> set of tables with a column referencing it
    in_degree,      \* table -> counter
    queue,          \* deque of tables
    result,         \* list of tables
    current,        \* the table popped last
    pending,        \* dependents of current the for loop has still to visit
    pc,             \* position inside topological_sort_tables
    \* SelectQueryReady / UpdateQuery; an optional value is <<>> (None) or <<v>>
    kind,           \* "select" or "update": which builder the caller holds
    table,          \* the table of fromm(table) or update(table)
    _distinct,
    _joins,
    _where_clause,
    _group_clause,
    _having_clause,
    _order_clause,
    _limit_value,
    _offset_value,
    data,           \* UpdateQuery.data: <<>> (Undefined) or <<sequence of [field, value]>>
    query,          \* what the last call returned when it was a render, else <<>>
    \* history of the calls made on the builder
    join_calls,     \* the join methods called, in call order
    where_calls,    \* the arguments of the where() calls, in call order
    order_args,     \* the arguments of all order_by() calls, in call order
    called,         \* the builder methods called so far
    ncalls,
    \* one clause rendered on its own
    clause,
    rendered,
    \* InsertQuery, the database behind the client, and a SELECT of all rows
    db_type,        \* "postgres" or "sqlite"
    ins_table,      \* the table of db.insert(table)
    ins_stage,      \* the class of the insert builder the caller holds
    items,          \* the rows handed to values()
    many_query,     \* what sql() of the insert builder the caller holds returned last, else <<>>
    stored,         \* the rows the database holds, keyed by column name
    fetched,        \* what db.fetch returned when the last call on the database was a fetch, else <<>>
    results,        \* what the last run() returned or raised
    \* Selection.to_sql_columns
    sel,            \* the fields of the Selection class
    projection,     \* dialect -> the projection rendered for it
    \* SQLTemplate.__call__
    template_obj,   \* the argument: a sequence of literal parts and interpolations
    template_out,   \* what the call returned or raised
    \* Table.__init__ and value_dict
    cls,            \* the table class the row is built for
    kwargs,         \* the keyword arguments: field name -> value
    new_row,        \* <<>> before the call, then the instance or what __init__ raised
    value_dict_out, \* what value_dict() of the instance returned
    \* the class statements of a schema module
    class_order,    \* the tables in the order their class statements run
    fk_targets,     \* table -> its columns; a column is the table its fk resolver names, or "none"
    bound_names,    \* the table names the module has bound so far
    next_class,     \* index in class_order of the class statement to run next
    class_raised,   \* <<>> or the error a class statement raised
    resolver_calls, \* how many times a resolver was invoked
    \* ColumnInfo.ddl and Table.ddl
    class_name,     \* cls.__name__, a sequence of characters
    table_name,     \* embar_config.table_name, a sequence of characters
    ddl_columns,    \* cls.__dict__: the columns as [field, info], in declaration order
    column_ddl_out, \* <<>> or what info.ddl() returned for one column
    table_ddl_out,  \* <<>> or what cls.ddl() returned
    \* run() and await on a built query
    client,         \* "sync" (DbBase) or "async" (AsyncDbBase): the query's _db
    query_class,    \* the class of the built query
    db_log,         \* the methods called on the client, in call order
    n_run,          \* number of run() calls made
    n_awaited,      \* number of await expressions completed
    coroutines,     \* number of coroutines __await__ created that have not run yet
    returned,       \* <<>> or what the last call returned: [op, value]
    \* Db.migrate / Db.migrates and their AsyncDb counterparts
    mig_client,     \* "sync" (Db) or "async" (AsyncDb)
    entry,          \* the method the caller called: "migrate" or "migrates"
    module_enums,   \* the PgEnum subclasses of the schema module, in dir() order
    enums_arg,      \* the enums argument of migrate: <<>> (None) or <<sequence>>
    conn_log,       \* what the connection was asked to do, in call order
    mig_pc          \* position inside migrates / migrate

sortVars == <<tables, fields, dependencies, in_degree, queue, result, current, pending, pc>>

builderVars == <<kind, table, _distinct, _joins, _where_clause, _group_clause, _having_clause,
                 _order_clause, _limit_value, _offset_value, data, query,
                 join_calls, where_calls, order_args, called, ncalls>>

clauseVars == <<clause, rendered>>

insertVars == <<db_type, ins_table, ins_stage, items, many_query, stored, fetched, results>>

selectionVars == <<sel, projection>>

templateVars == <<template_obj, template_out>>

tableVars == <<cls, kwargs, new_row, value_dict_out>>

\* the parts added to the model after the query builders
defineVars == <<class_order, fk_targets, bound_names, next_class, class_raised, resolver_calls>>

ddlVars == <<class_name, table_name, ddl_columns, column_ddl_out, table_ddl_out>>

runVars == <<client, query_class, db_log, n_run, n_awaited, coroutines, returned>>

migrateVars == <<mig_client, entry, module_enums, enums_arg, conn_log, mig_pc>>

moreVars == <<tableVars, defineVars, ddlVars, runVars, migrateVars>>

\* the parts of the program the sorter, the builders and the clauses do not touch
otherVars == <<insertVars, selectionVars, templateVars, moreVars>>

vars == <<sortVars, builderVars, clauseVars, otherVars>>

\* ------------------------------------------------------------------------
\* Helpers
\* ------------------------------------------------------------------------
Range(s) == {s[i] : i \in DOMAIN s}

None == <<>>
Some(x) == <<x>>

\* the variables of one part of the program while another part runs
SortIdle ==
    /\ tables = <<>>
    /\ fields = <<>>
    /\ dependencies = <<>>
    /\ in_degree = <<>>
    /\ queue = <<>>
    /\ result = <<>>
    /\ current = "none"
    /\ pending = {}
    /\ pc = "idle"

BuilderIdle ==
    /\ kind = "idle"
    /\ table = "none"
    /\ _distinct = FALSE
    /\ _joins = <<>>
    /\ _where_clause = None
    /\ _group_clause = None
    /\ _having_clause = None
    /\ _order_clause = None
    /\ _limit_value = None
    /\ _offset_value = None
    /\ data = None
    /\ query = None
    /\ join_calls = <<>>
    /\ where_calls = <<>>
    /\ order_args = <<>>
    /\ called = {}
    /\ ncalls = 0

ClauseIdle ==
    /\ clause = None
    /\ rendered = None

InsertIdle ==
    /\ db_type = "none"
    /\ ins_table = "none"
    /\ ins_stage = "none"
    /\ items = <<>>
    /\ many_query = None
    /\ stored = <<>>
    /\ fetched = None
    /\ results = None

SelectionIdle ==
    /\ sel = <<>>
    /\ projection = <<>>

TemplateIdle ==
    /\ template_obj = <<>>
    /\ template_out = None

TableIdle ==
    /\ cls = "none"
    /\ kwargs = <<>>
    /\ new_row = None
    /\ value_dict_out = None

DefineIdle ==
    /\ class_order = <<>>
    /\ fk_targets = <<>>
    /\ bound_names = {}
    /\ next_class = 0
    /\ class_raised = None
    /\ resolver_calls = 0

DdlIdle ==
    /\ class_name = <<>>
    /\ table_name = <<>>
    /\ ddl_columns = <<>>
    /\ column_ddl_out = None
    /\ table_ddl_out = None

RunIdle ==
    /\ client = "none"
    /\ query_class = "none"
    /\ db_log = <<>>
    /\ n_run = 0
    /\ n_awaited = 0
    /\ coroutines = 0
    /\ returned = None

MigrateIdle ==
    /\ mig_client = "none"
    /\ entry = "none"
    /\ module_enums = <<>>
    /\ enums_arg = None
    /\ conn_log = <<>>
    /\ mig_pc = "idle"

MoreIdle == TableIdle /\ DefineIdle /\ DdlIdle /\ RunIdle /\ MigrateIdle

OtherIdle == InsertIdle /\ SelectionIdle /\ TemplateIdle /\ MoreIdle

\* ------------------------------------------------------------------------
\* Schema: the tables the sorter can be handed
\* ------------------------------------------------------------------------
TableNames == {"user", "message", "tag"}

\* what a column's info.ref can point at: nothing, or a column of some table
Refs == TableNames \cup {"none"}

\* the sequences without repetition over the non-empty subsets of TableNames
InputOrders ==
    {s \in UNION {[1..n -> TableNames] : n \in 1..Cardinality(TableNames)} :
        \A i, j \in DOMAIN s : i # j => s[i] # s[j]}

Schemas ==
    UNION {
        {[user |-> a, message |-> b, tag |-> c] :
            a \in [1..n[1] -> Refs], b \in [1..n[2] -> Refs], c \in [1..n[3] -> Refs]} :
        n \in {m \in (0..MaxFk) \X (0..MaxFk) \X (0..MaxFk) : m[1] + m[2] + m[3] <= MaxFk}}

\* ------------------------------------------------------------------------
\* topological_sort_tables  (embar/_util.py)
\* ------------------------------------------------------------------------
\* name_to_table: the tables of the argument, by name
name_to_table == Range(tables)

\* lines 34-42: one pass over every column of every table
RECURSIVE CountRefs(_, _)
CountRefs(cols, i) ==
    IF i > Len(cols) THEN 0
    ELSE (IF cols[i] # "none" /\ cols[i] \in name_to_table THEN 1 ELSE 0) + CountRefs(cols, i + 1)

BuildInDegree == [t \in Range(tables) |-> CountRefs(fields[t], 1)]

BuildDependencies ==
    [r \in TableNames |->
        {t \in Range(tables) : r \in name_to_table /\ \E i \in DOMAIN fields[t] : fields[t][i] = r}]

\* line 45: deque(table for table in tables if in_degree[table] == 0)
RECURSIVE ZeroInDegree(_, _, _)
ZeroInDegree(ts, deg, i) ==
    IF i > Len(ts) THEN <<>>
    ELSE (IF deg[ts[i]] = 0 THEN <<ts[i]>> ELSE <<>>) \o ZeroInDegree(ts, deg, i + 1)

SortInit ==
    /\ tables \in InputOrders
    /\ fields \in {f \in Schemas : \A t \in TableNames \ Range(tables) : f[t] = <<>>}
    /\ dependencies = [r \in TableNames |-> {}]
    /\ in_degree = [t \in Range(tables) |-> 0]
    /\ queue = <<>>
    /\ result = <<>>
    /\ current = "none"
    /\ pending = {}
    /\ pc = "build"
    /\ BuilderIdle
    /\ ClauseIdle
    /\ OtherIdle

\* lines 28-42
BuildGraph ==
    /\ pc = "build"
    /\ dependencies' = BuildDependencies
    /\ in_degree' = BuildInDegree
    /\ pc' = "seed"
    /\ UNCHANGED <<tables, fields, queue, result, current, pending, builderVars, clauseVars, otherVars>>

\* lines 45-46
SeedQueue ==
    /\ pc = "seed"
    /\ queue' = ZeroInDegree(tables, in_degree, 1)
    /\ result' = <<>>
    /\ pc' = "while"
    /\ UNCHANGED <<tables, fields, dependencies, in_degree, current, pending, builderVars, clauseVars, otherVars>>

\* lines 48-50
PopLeft ==
    /\ pc = "while"
    /\ queue # <<>>
    /\ current' = Head(queue)
    /\ queue' = Tail(queue)
    /\ result' = Append(result, Head(queue))
    /\ pending' = dependencies[Head(queue)]
    /\ pc' = "for"
    /\ UNCHANGED <<tables, fields, dependencies, in_degree, builderVars, clauseVars, otherVars>>

\* lines 52-55: one iteration of the loop over the set dependencies[current];
\* a set is iterated in an order the program does not fix
DecrementDependent(dependent) ==
    /\ in_degree' = [in_degree EXCEPT ![dependent] = @ - 1]
    /\ queue' = IF in_degree[dependent] - 1 = 0 THEN Append(queue, dependent) ELSE queue

VisitDependent ==
    /\ pc = "for"
    /\ pending # {}
    /\ \E dependent \in pending :
        /\ DecrementDependent(dependent)
        /\ pending' = pending \ {dependent}
    /\ UNCHANGED <<tables, fields, dependencies, result, current, pc, builderVars, clauseVars, otherVars>>

EndFor ==
    /\ pc = "for"
    /\ pending = {}
    /\ pc' = "while"
    /\ UNCHANGED <<tables, fields, dependencies, in_degree, queue, result, current, pending, builderVars, clauseVars, otherVars>>

\* lines 57-58
RaiseCircular ==
    /\ pc = "while"
    /\ queue = <<>>
    /\ Len(result) # Len(tables)
    /\ pc' = "raised"
    /\ UNCHANGED <<tables, fields, dependencies, in_degree, queue, result, current, pending, builderVars, clauseVars, otherVars>>

\* the return of line 60 with the length test of line 57 left out
ReturnResultUnchecked ==
    /\ pc = "while"
    /\ queue = <<>>
    /\ pc' = "returned"
    /\ UNCHANGED <<tables, fields, dependencies, in_degree, queue, result, current, pending, builderVars, clauseVars, otherVars>>

\* line 60
ReturnResult ==
    /\ pc = "while"
    /\ queue = <<>>
    /\ Len(result) = Len(tables)
    /\ pc' = "returned"
    /\ UNCHANGED <<tables, fields, dependencies, in_degree, queue, result, current, pending, builderVars, clauseVars, otherVars>>

SortNext ==
    \/ BuildGraph
    \/ SeedQueue
    \/ PopLeft
    \/ VisitDependent
    \/ EndFor
    \/ RaiseCircular
    \/ ReturnResult

SpecSort == SortInit /\ [][SortNext]_vars

\* ------------------------------------------------------------------------
\* Properties of topological_sort_tables
\* ------------------------------------------------------------------------
\* t has a column whose info.ref is a column of the input table r
ReferencesTable(t, r) == r \in Range(tables) /\ \E i \in DOMAIN fields[t] : fields[t][i] = r

IndexIn(s, x) == CHOOSE i \in DOMAIN s : s[i] = x

IsPermutation(s, t) ==
    /\ Len(s) = Len(t)
    /\ Range(s) = Range(t)
    /\ \A i, j \in DOMAIN s : i # j => s[i] # s[j]

\* the tables reachable from t along at most n foreign keys between distinct tables
RECURSIVE ReachableFrom(_, _)
ReachableFrom(S, n) ==
    IF n = 0 THEN {}
    ELSE LET step == {r \in Range(tables) : \E t \in S : t # r /\ ReferencesTable(t, r)}
         IN step \cup ReachableFrom(step, n - 1)

HasCycle == \E t \in Range(tables) : t \in ReachableFrom({t}, Len(tables))

\* C1: whenever topological_sort_tables returns, the result is a permutation
\* of the input and every table comes after every input table one of its
\* columns references; [Message, User] with Message.user_id -> User.id
\* yields [User, Message].
C1_SortedPermutation ==
    pc = "returned" =>
        /\ IsPermutation(result, tables)
        /\ \A t, r \in Range(tables) :
              ReferencesTable(t, r) => IndexIn(result, r) < IndexIn(result, t)
        /\ (tables = <<"message", "user">> /\ fields["message"] = <<"user">> /\ fields["user"] = <<>>)
              => result = <<"user", "message">>

C1_Witness ==
    /\ pc = "returned"
    /\ tables = <<"message", "user">>
    /\ fields["message"] = <<"user">>
    /\ result = <<"user", "message">>

\* C2: the circular-dependency error is raised exactly when the foreign keys
\* among the input tables form a cycle between distinct tables; every
\* acyclic input returns, also one where a table has several columns
\* referencing the same other table.
C2_RaisesIffCycle ==
    /\ pc = "raised" => HasCycle
    /\ pc = "returned" => ~HasCycle

\* ------------------------------------------------------------------------
\* Rendered SQL and bind parameters
\* ------------------------------------------------------------------------
\* SQL text is the sequence of its pieces. A piece is a keyword or operator,
\* a quoted name, or a %(name)s placeholder, which also carries the counter
\* value its name was formatted from.
Tok(k, v) == [k |-> k, v |-> v, i |-> -1]
Placeholder(name, count) == [k |-> "ph", v |-> name, i |-> count]

\* ColumnInfo.fqn  (embar/column/base.py)
ColumnFqn(info) == "\"" \o info.t \o "\".\"" \o info.name \o "\""

\* TableBase.fqn  (embar/table_base.py)
TableFqn(t) == "\"" \o t \o "\""

NoParams == <<>>

\* {**left, **right}: the right map wins on a shared key
MergeParams(left, right) == right @@ left

WhereData(sql, params, count) == [sql |-> sql, params |-> params, count |-> count]

\* isinstance(right, ColumnInfo)
IsColumnInfo(x) == "name" \in DOMAIN x

\* ------------------------------------------------------------------------
\* WhereClause.get  (embar/query/where.py)
\* count is the value get_count() returned last, -1 before the first call
\* ------------------------------------------------------------------------
\* the comparison body binding the right operand as a parameter also when
\* it is a column
CompareGetBindsColumn(self, count, prefix, litOp, colOp) ==
    LET c == count + 1
        name == prefix \o "_" \o self.left.name \o "_" \o ToString(c)
    IN IF IsColumnInfo(self.right)
       THEN WhereData(<<Tok("col", ColumnFqn(self.left)), Tok("op", colOp), Tok("col", ColumnFqn(self.right))>>,
                      name :> self.right, c)
       ELSE WhereData(<<Tok("col", ColumnFqn(self.left)), Tok("op", litOp), Placeholder(name, c)>>,
                      name :> self.right.value, c)

\* the body shared by the nine comparison classes: prefix of the bind name,
\* operator written before a bound literal, operator written before a column
CompareGet(self, count, prefix, litOp, colOp) ==
    LET c == count + 1
        name == prefix \o "_" \o self.left.name \o "_" \o ToString(c)
    IN IF IsColumnInfo(self.right)
       THEN WhereData(<<Tok("col", ColumnFqn(self.left)), Tok("op", colOp), Tok("col", ColumnFqn(self.right))>>,
                      NoParams, c)
       ELSE WhereData(<<Tok("col", ColumnFqn(self.left)), Tok("op", litOp), Placeholder(name, c)>>,
                      name :> self.right.value, c)

\* Eq.get with the counter left out of the bind name
EqGetNoCount(self, count) ==
    LET c == count + 1
        name == "eq_" \o self.left.name
    IN IF IsColumnInfo(self.right)
       THEN WhereData(<<Tok("col", ColumnFqn(self.left)), Tok("op", "="), Tok("col", ColumnFqn(self.right))>>,
                      NoParams, c)
       ELSE WhereData(<<Tok("col", ColumnFqn(self.left)), Tok("op", "="), Placeholder(name, c)>>,
                      name :> self.right.value, c)

EqGet(self, count) == CompareGet(self, count, "eq", "=", "=")
NeGet(self, count) == CompareGet(self, count, "ne", "!=", "!=")
GtGet(self, count) == CompareGet(self, count, "gt", ">", ">")
GteGet(self, count) == CompareGet(self, count, "gte", ">=", ">=")
LtGet(self, count) == CompareGet(self, count, "lt", "<", "<")
LteGet(self, count) == CompareGet(self, count, "lte", "<=", "<=")
LikeGet(self, count) == CompareGet(self, count, "like", "LIKE", "=")
IlikeGet(self, count) == CompareGet(self, count, "ilike", "ILIKE", "ILIKE")
NotLikeGet(self, count) == CompareGet(self, count, "notlike", "NOT LIKE", "NOT LIKE")

IsNullGet(self, count) ==
    WhereData(<<Tok("col", ColumnFqn(self.column)), Tok("op", "IS NULL")>>, NoParams, count)

IsNotNullGet(self, count) ==
    WhereData(<<Tok("col", ColumnFqn(self.column)), Tok("op", "IS NOT NULL")>>, NoParams, count)

InArrayGet(self, count) ==
    LET c == count + 1
        name == "in_" \o self.column.name \o "_" \o ToString(c)
    IN WhereData(<<Tok("col", ColumnFqn(self.column)), Tok("op", "= ANY("), Placeholder(name, c), Tok("op", ")")>>,
                 name :> self.values, c)

NotInArrayGet(self, count) ==
    LET c == count + 1
        name == "notin_" \o self.column.name \o "_" \o ToString(c)
    IN WhereData(<<Tok("col", ColumnFqn(self.column)), Tok("op", "!= ALL("), Placeholder(name, c), Tok("op", ")")>>,
                 name :> self.values, c)

RangeGet(self, count, prefix, op) ==
    LET c == count + 1
        lower_name == prefix \o "_lower_" \o self.column.name \o "_" \o ToString(c)
        upper_name == prefix \o "_upper_" \o self.column.name \o "_" \o ToString(c)
    IN WhereData(<<Tok("col", ColumnFqn(self.column)), Tok("op", op), Placeholder(lower_name, c),
                   Tok("op", "AND"), Placeholder(upper_name, c)>>,
                 (lower_name :> self.lower) @@ (upper_name :> self.upper), c)

BetweenGet(self, count) == RangeGet(self, count, "between", "BETWEEN")
NotBetweenGet(self, count) == RangeGet(self, count, "notbetween", "NOT BETWEEN")

RECURSIVE WhereGet(_, _)

NotGet(self, count) ==
    LET inner == WhereGet(self.clause, count)
    IN WhereData(<<Tok("op", "NOT"), Tok("op", "(")>> \o inner.sql \o <<Tok("op", ")")>>, inner.params, inner.count)

AndGet(self, count) ==
    LET left == WhereGet(self.left, count)
        right == WhereGet(self.right, left.count)
    IN WhereData(left.sql \o <<Tok("op", "AND")>> \o right.sql, MergeParams(left.params, right.params), right.count)

OrGet(self, count) ==
    LET left == WhereGet(self.left, count)
        right == WhereGet(self.right, left.count)
    IN WhereData(left.sql \o <<Tok("op", "OR")>> \o right.sql, MergeParams(left.params, right.params), right.count)

\* dynamic dispatch on the class of the clause
WhereGet(self, count) ==
    CASE self.op = "Eq" -> EqGet(self, count)
      [] self.op = "Ne" -> NeGet(self, count)
      [] self.op = "Gt" -> GtGet(self, count)
      [] self.op = "Gte" -> GteGet(self, count)
      [] self.op = "Lt" -> LtGet(self, count)
      [] self.op = "Lte" -> LteGet(self, count)
      [] self.op = "Like" -> LikeGet(self, count)
      [] self.op = "Ilike" -> IlikeGet(self, count)
      [] self.op = "NotLike" -> NotLikeGet(self, count)
      [] self.op = "IsNull" -> IsNullGet(self, count)
      [] self.op = "IsNotNull" -> IsNotNullGet(self, count)
      [] self.op = "InArray" -> InArrayGet(self, count)
      [] self.op = "NotInArray" -> NotInArrayGet(self, count)
      [] self.op = "Between" -> BetweenGet(self, count)
      [] self.op = "NotBetween" -> NotBetweenGet(self, count)
      [] self.op = "Not" -> NotGet(self, count)
      [] self.op = "And" -> AndGet(self, count)
      [] self.op = "Or" -> OrGet(self, count)

\* the constructors: a right operand is a literal [value |-> v] or a ColumnInfo
Lit(v) == [value |-> v]
Compare(op, left, right) == [op |-> op, left |-> left, right |-> right]
Eq(left, right) == Compare("Eq", left, right)
Gt(left, right) == Compare("Gt", left, right)
Like(left, right) == Compare("Like", left, right)
IsNull(column) == [op |-> "IsNull", column |-> column]
IsNotNull(column) == [op |-> "IsNotNull", column |-> column]
InArray(column, values) == [op |-> "InArray", column |-> column, values |-> values]
NotInArray(column, values) == [op |-> "NotInArray", column |-> column, values |-> values]
Between(column, lower, upper) == [op |-> "Between", column |-> column, lower |-> lower, upper |-> upper]
NotBetween(column, lower, upper) == [op |-> "NotBetween", column |-> column, lower |-> lower, upper |-> upper]
Not(c) == [op |-> "Not", clause |-> c]
And(left, right) == [op |-> "And", left |-> left, right |-> right]
Or(left, right) == [op |-> "Or", left |-> left, right |-> right]

\* ------------------------------------------------------------------------
\* The schema the queries are built over
\* ------------------------------------------------------------------------
UserId == [t |-> "user", name |-> "id"]
UserEmail == [t |-> "user", name |-> "email_address"]
MessageUserId == [t |-> "message", name |-> "user_id"]

\* Table.column_names(): field name -> column name, in declaration order
ColumnNames ==
    [user |-> <<[field |-> "id", name |-> "id", py |-> "int"], [field |-> "email", name |-> "email_address", py |-> "str"]>>,
     message |-> <<[field |-> "id", name |-> "id", py |-> "int"], [field |-> "user_id", name |-> "user_id", py |-> "int"]>>,
     account |-> <<[field |-> "id", name |-> "id", py |-> "int"], [field |-> "_token", name |-> "_token", py |-> "str"]>>]

\* dir(cls): the same fields in alphabetical order
DirColumns ==
    [user |-> <<[field |-> "email", name |-> "email_address", py |-> "str"], [field |-> "id", name |-> "id", py |-> "int"]>>,
     message |-> <<[field |-> "id", name |-> "id", py |-> "int"], [field |-> "user_id", name |-> "user_id", py |-> "int"]>>,
     account |-> <<[field |-> "_token", name |-> "_token", py |-> "str"], [field |-> "id", name |-> "id", py |-> "int"]>>]

LiteralValues == 1..3

\* ------------------------------------------------------------------------
\* One clause rendered on its own: clause.get(get_count) with a fresh counter
\* ------------------------------------------------------------------------
ComparisonOps == {"Eq", "Ne", "Gt", "Gte", "Lt", "Lte", "Like", "Ilike", "NotLike"}

Atoms ==
    {Compare(op, UserId, right) : op \in ComparisonOps, right \in {Lit(1), MessageUserId}}
    \cup {IsNull(UserId), IsNotNull(UserId), InArray(UserId, <<1, 2>>), NotInArray(UserId, <<1, 2>>),
          Between(UserId, 1, 2), NotBetween(UserId, 1, 2)}

EqAtoms == {Eq(UserId, Lit(v)) : v \in LiteralValues}

Combine(S) == {And(a, b) : a \in S, b \in S} \cup {Or(a, b) : a \in S, b \in S}

ClauseInputs ==
    Atoms \cup {Not(a) : a \in Atoms}
    \cup Combine(EqAtoms \cup {Between(UserId, 1, 2), Eq(UserId, MessageUserId), Not(Eq(UserId, Lit(1)))})
    \cup Combine(EqAtoms \cup Combine(EqAtoms))

ClauseInit ==
    /\ clause \in {Some(c) : c \in ClauseInputs}
    /\ rendered = None
    /\ SortIdle
    /\ BuilderIdle
    /\ OtherIdle

\* clause.get(get_count) where get_count is a counter starting at -1
GetClause ==
    /\ clause # None
    /\ rendered = None
    /\ rendered' = Some(WhereGet(clause[1], -1))
    /\ UNCHANGED <<clause, sortVars, builderVars, otherVars>>

ClauseNext == GetClause

SpecWhere == ClauseInit /\ [][ClauseNext]_vars

\* ------------------------------------------------------------------------
\* JoinClause.get  (embar/query/join.py)
\* ------------------------------------------------------------------------
JoinOn(keyword, self, count) ==
    LET on == WhereGet(self.on, count)
    IN WhereData(<<Tok("clause", keyword), Tok("table", TableFqn(self.table)), Tok("op", "ON")>> \o on.sql,
                 on.params, on.count)

LeftJoinGet(self, count) == JoinOn("LEFT JOIN", self, count)
RightJoinGet(self, count) == JoinOn("RIGHT JOIN", self, count)
InnerJoinGet(self, count) == JoinOn("INNER JOIN", self, count)
FullJoinGet(self, count) == JoinOn("FULL OUTER JOIN", self, count)

CrossJoinGet(self, count) ==
    WhereData(<<Tok("clause", "CROSS JOIN"), Tok("table", TableFqn(self.table))>>, NoParams, count)

JoinGet(self, count) ==
    CASE self.cls = "LeftJoin" -> LeftJoinGet(self, count)
      [] self.cls = "RightJoin" -> RightJoinGet(self, count)
      [] self.cls = "InnerJoin" -> InnerJoinGet(self, count)
      [] self.cls = "FullJoin" -> FullJoinGet(self, count)
      [] self.cls = "CrossJoin" -> CrossJoinGet(self, count)

LeftJoin(t, on) == [cls |-> "LeftJoin", table |-> t, on |-> on]
RightJoin(t, on) == [cls |-> "RightJoin", table |-> t, on |-> on]
InnerJoin(t, on) == [cls |-> "InnerJoin", table |-> t, on |-> on]
FullJoin(t, on) == [cls |-> "FullJoin", table |-> t, on |-> on]
CrossJoin(t) == [cls |-> "CrossJoin", table |-> t]

\* ------------------------------------------------------------------------
\* ORDER BY clauses
\* ------------------------------------------------------------------------
\* what order_by() accepts: a column, Asc(col, nulls), Desc(col, nulls), Sql(template)
Asc(col, nulls) == [order |-> "Asc", col |-> col, nulls |-> nulls]
Desc(col, nulls) == [order |-> "Desc", col |-> col, nulls |-> nulls]
Sql(text) == [template |-> text]
\* what the builder stores for the other two
BareColumn(col) == [order |-> "BareColumn", col |-> col, nulls |-> "none"]
RawSqlOrder(sql) == [order |-> "RawSqlOrder", sql |-> sql]

\* select.py lines 236-243: the conversion of one order_by() argument
ToOrderByClause(c) ==
    IF "order" \in DOMAIN c /\ c.order \in {"Asc", "Desc"} THEN c
    ELSE IF "template" \in DOMAIN c THEN RawSqlOrder(c)
    ELSE BareColumn(c)

MapSeq(Op(_), s) == [i \in DOMAIN s |-> Op(s[i])]

\* OrderByClause.sql for one clause
OrderByClauseSql(c) ==
    LET nulls == IF c.nulls = "first" THEN <<Tok("op", "NULLS FIRST")>>
                 ELSE IF c.nulls = "last" THEN <<Tok("op", "NULLS LAST")>>
                 ELSE <<>>
    IN CASE c.order = "BareColumn" -> <<Tok("col", ColumnFqn(c.col))>>
         [] c.order = "Asc" -> <<Tok("col", ColumnFqn(c.col)), Tok("op", "ASC")>> \o nulls
         [] c.order = "Desc" -> <<Tok("col", ColumnFqn(c.col)), Tok("op", "DESC")>> \o nulls

RECURSIVE OrderBySql(_, _)
OrderBySql(clauses, i) ==
    IF i > Len(clauses) THEN <<>>
    ELSE (IF clauses[i].order = "RawSqlOrder" THEN <<Tok("raw", clauses[i].sql.template)>>
          ELSE OrderByClauseSql(clauses[i]))
         \o (IF i < Len(clauses) THEN <<Tok("op", ",")>> ELSE <<>>)
         \o OrderBySql(clauses, i + 1)

\* ------------------------------------------------------------------------
\* SelectQueryReady.sql  (embar/query/select.py)
\* ------------------------------------------------------------------------
\* Selection.to_sql_columns of the dataclass generated for SelectAll:
\* one '<fqn> AS "<field>"' per column of the from-table
RECURSIVE ToSqlColumns(_, _, _)
ToSqlColumns(t, cols, i) ==
    IF i > Len(cols) THEN <<>>
    ELSE <<Tok("col", ColumnFqn([t |-> t, name |-> cols[i].name])), Tok("op", "AS"),
           Tok("alias", "\"" \o cols[i].field \o "\"")>>
         \o (IF i < Len(cols) THEN <<Tok("op", ",")>> ELSE <<>>)
         \o ToSqlColumns(t, cols, i + 1)

\* lines 384-387: every join rendered in list order with the shared counter
RECURSIVE JoinsSql(_, _, _)
JoinsSql(joins, i, count) ==
    IF i > Len(joins) THEN WhereData(<<>>, NoParams, count)
    ELSE LET join_data == JoinGet(joins[i], count)
             rest == JoinsSql(joins, i + 1, join_data.count)
         IN WhereData(join_data.sql \o rest.sql, MergeParams(join_data.params, rest.params), rest.count)

\* lines 389-392 and 399-402: an optional WHERE or HAVING condition
ConditionSql(keyword, cond, count) ==
    IF cond # None
    THEN LET where_data == WhereGet(cond[1], count)
         IN WhereData(<<Tok("clause", keyword)>> \o where_data.sql, where_data.params, where_data.count)
    ELSE WhereData(<<>>, NoParams, count)

RECURSIVE ColumnList(_, _)
ColumnList(cols, i) ==
    IF i > Len(cols) THEN <<>>
    ELSE <<Tok("col", ColumnFqn(cols[i]))>>
         \o (IF i < Len(cols) THEN <<Tok("op", ",")>> ELSE <<>>)
         \o ColumnList(cols, i + 1)

SelectHead ==
    <<Tok("clause", "SELECT")>>
    \o (IF _distinct THEN <<Tok("clause", "DISTINCT")>> ELSE <<>>)
    \o ToSqlColumns(table, DirColumns[table], 1)
    \o <<Tok("clause", "FROM"), Tok("table", TableFqn(table))>>

GroupBySql == IF _group_clause # None THEN <<Tok("clause", "GROUP BY")>> \o ColumnList(_group_clause[1], 1) ELSE <<>>
OrderSql == IF _order_clause # None THEN <<Tok("clause", "ORDER BY")>> \o OrderBySql(_order_clause[1], 1) ELSE <<>>
LimitSql == IF _limit_value # None THEN <<Tok("clause", "LIMIT"), Tok("num", ToString(_limit_value[1]))>> ELSE <<>>
OffsetSql == IF _offset_value # None THEN <<Tok("clause", "OFFSET"), Tok("num", ToString(_offset_value[1]))>> ELSE <<>>

Query(sql, params) == [sql |-> sql, params |-> params]

\* sql() with the LIMIT and OFFSET clauses written in the other order and
\* HAVING written before GROUP BY
SelectSqlSwapped ==
    LET joins == JoinsSql(_joins, 1, -1)
        where_data == ConditionSql("WHERE", _where_clause, joins.count)
        having_data == ConditionSql("HAVING", _having_clause, where_data.count)
    IN Query(SelectHead \o joins.sql \o where_data.sql \o having_data.sql \o GroupBySql
                 \o OrderSql \o OffsetSql \o LimitSql,
             MergeParams(MergeParams(joins.params, where_data.params), having_data.params))

\* sql() with a counter of its own for the HAVING clause
SelectSqlFreshCount ==
    LET joins == JoinsSql(_joins, 1, -1)
        where_data == ConditionSql("WHERE", _where_clause, joins.count)
        having_data == ConditionSql("HAVING", _having_clause, -1)
    IN Query(SelectHead \o joins.sql \o where_data.sql \o GroupBySql \o having_data.sql
                 \o OrderSql \o LimitSql \o OffsetSql,
             MergeParams(MergeParams(joins.params, where_data.params), having_data.params))

\* sql() whose counter goes on from the last index of the render before
SelectSqlContinuing ==
    LET before == IF query = None THEN {}
                  ELSE {query[1].sql[p].i : p \in {q \in DOMAIN query[1].sql : query[1].sql[q].k = "ph"}}
        start == IF before = {} THEN -1 ELSE CHOOSE m \in before : \A n \in before : n <= m
        joins == JoinsSql(_joins, 1, start)
        where_data == ConditionSql("WHERE", _where_clause, joins.count)
        having_data == ConditionSql("HAVING", _having_clause, where_data.count)
    IN Query(SelectHead \o joins.sql \o where_data.sql \o GroupBySql \o having_data.sql
                 \o OrderSql \o LimitSql \o OffsetSql,
             MergeParams(MergeParams(joins.params, where_data.params), having_data.params))

SelectSql ==
    LET joins == JoinsSql(_joins, 1, -1)
        where_data == ConditionSql("WHERE", _where_clause, joins.count)
        having_data == ConditionSql("HAVING", _having_clause, where_data.count)
    IN Query(SelectHead \o joins.sql \o where_data.sql \o GroupBySql \o having_data.sql
                 \o OrderSql \o LimitSql \o OffsetSql,
             MergeParams(MergeParams(joins.params, where_data.params), having_data.params))

\* ------------------------------------------------------------------------
\* UpdateQuery._build_sql  (embar/query/update.py)
\* ------------------------------------------------------------------------
ColumnOf(t, field_name) ==
    LET cols == ColumnNames[t]
    IN cols[CHOOSE i \in DOMAIN cols : cols[i].field = field_name].name

\* lines 88-95: one setter and one bound value per item of data
RECURSIVE Setters(_, _, _)
Setters(entries, i, count) ==
    IF i > Len(entries) THEN WhereData(<<>>, NoParams, count)
    ELSE LET c == count + 1
             binding_name == "set_" \o entries[i].field \o "_" \o ToString(c)
             rest == Setters(entries, i + 1, c)
         IN WhereData(<<Tok("setcol", "\"" \o ColumnOf(table, entries[i].field) \o "\""), Tok("op", "="),
                        Placeholder(binding_name, c)>>
                          \o (IF i < Len(entries) THEN <<Tok("op", ",")>> ELSE <<>>) \o rest.sql,
                      MergeParams(binding_name :> entries[i].value, rest.params), rest.count)

\* _build_sql whose WHERE clause numbers its parameters with a counter of its own
UpdateBuildSqlFreshCount ==
    IF data = None THEN [raised |-> "AttributeError"]
    ELSE LET setters == Setters(data[1], 1, -1)
             where_data == ConditionSql("WHERE", _where_clause, -1)
         IN Query(<<Tok("clause", "UPDATE"), Tok("table", TableFqn(table)), Tok("clause", "SET")>>
                      \o setters.sql \o where_data.sql,
                  MergeParams(setters.params, where_data.params))

\* data is still Undefined when set() was never called: data.items() raises
UpdateBuildSql ==
    IF data = None THEN [raised |-> "AttributeError"]
    ELSE LET setters == Setters(data[1], 1, -1)
             where_data == ConditionSql("WHERE", _where_clause, setters.count)
         IN Query(<<Tok("clause", "UPDATE"), Tok("table", TableFqn(table)), Tok("clause", "SET")>>
                      \o setters.sql \o where_data.sql,
                  MergeParams(setters.params, where_data.params))

\* ------------------------------------------------------------------------
\* The builders: SelectQueryReady and UpdateQuery
\* ------------------------------------------------------------------------
WhereInputs ==
    {Eq(UserId, Lit(1)),
     Eq(UserId, Lit(2)),
     Eq(UserId, MessageUserId),
     And(Eq(UserId, Lit(1)), Eq(UserId, Lit(1))),
     And(Eq(UserId, Lit(1)), Or(Eq(UserId, Lit(2)), Eq(UserId, Lit(3)))),
     Or(And(Eq(UserId, MessageUserId), Between(UserId, 1, 3)), Not(Like(UserEmail, Lit(2)))),
     Between(UserId, 2, 3),
     InArray(UserId, <<1, 2>>),
     Not(IsNull(UserEmail))}

OnInputs == {Eq(UserId, MessageUserId), And(Eq(UserId, MessageUserId), Eq(UserId, Lit(1)))}

HavingInputs == {Gt(UserId, Lit(1)), And(Eq(UserId, Lit(1)), Eq(UserId, Lit(1)))}

GroupInputs == {<<UserId>>, <<UserId, UserEmail>>}

OrderInputs ==
    {<<UserId>>, <<Desc(UserEmail, "first"), UserId>>, <<Sql("{User.id} DESC")>>, <<Asc(UserId, "none")>>}

LimitInputs == {0, 10}

OffsetInputs == {20}

\* the mappings handed to set(), as the sequence of their items
DataInputs ==
    {<<>>,
     <<[field |-> "email", value |-> 1]>>,
     <<[field |-> "id", value |-> 2], [field |-> "email", value |-> 1]>>,
     <<[field |-> "email", value |-> 3], [field |-> "id", value |-> 3]>>}

\* db.select(SelectAll).fromm(User), db.select_distinct(SelectAll).fromm(User)
\* or db.update(User)
BuilderInit ==
    /\ kind \in {"select", "update"}
    /\ table = "user"
    /\ _distinct \in (IF kind = "select" THEN BOOLEAN ELSE {FALSE})
    /\ _joins = <<>>
    /\ _where_clause = None
    /\ _group_clause = None
    /\ _having_clause = None
    /\ _order_clause = None
    /\ _limit_value = None
    /\ _offset_value = None
    /\ data = None
    /\ query = None
    /\ join_calls = <<>>
    /\ where_calls = <<>>
    /\ order_args = <<>>
    /\ called = {}
    /\ ncalls = 0
    /\ SortIdle
    /\ ClauseIdle
    /\ OtherIdle

\* every builder method returns self
Call(method) ==
    /\ ncalls < MaxCalls
    /\ ncalls' = ncalls + 1
    /\ called' = called \cup {method}
    /\ query' = None
    /\ UNCHANGED <<kind, table, _distinct, sortVars, clauseVars, otherVars>>

AddJoin(method, join) ==
    /\ kind = "select"
    /\ Call(method)
    /\ _joins' = Append(_joins, join)
    /\ join_calls' = Append(join_calls, method)
    /\ UNCHANGED <<_where_clause, _group_clause, _having_clause, _order_clause, _limit_value,
                   _offset_value, data, where_calls, order_args>>

left_join == \E on \in OnInputs : AddJoin("left_join", LeftJoin("message", on))
right_join == \E on \in OnInputs : AddJoin("right_join", RightJoin("message", on))
inner_join == \E on \in OnInputs : AddJoin("inner_join", InnerJoin("message", on))
full_join == \E on \in OnInputs : AddJoin("full_join", FullJoin("message", on))
cross_join == AddJoin("cross_join", CrossJoin("message"))

\* where() that keeps the earlier condition and adds the new one to it
WhereAdditive(k, where_clause) ==
    /\ kind = k
    /\ Call("where")
    /\ _where_clause' = IF _where_clause = None THEN Some(where_clause)
                        ELSE Some(And(_where_clause[1], where_clause))
    /\ where_calls' = Append(where_calls, where_clause)
    /\ UNCHANGED <<_joins, _group_clause, _having_clause, _order_clause, _limit_value,
                   _offset_value, data, order_args, join_calls>>

\* SelectQueryReady.where and UpdateQuery.where
Where(k, where_clause) ==
    /\ kind = k
    /\ Call("where")
    /\ _where_clause' = Some(where_clause)
    /\ where_calls' = Append(where_calls, where_clause)
    /\ UNCHANGED <<_joins, _group_clause, _having_clause, _order_clause, _limit_value,
                   _offset_value, data, order_args, join_calls>>

where == \E where_clause \in WhereInputs : Where("select", where_clause)

group_by ==
    /\ kind = "select"
    /\ Call("group_by")
    /\ \E cols \in GroupInputs : _group_clause' = Some(cols)
    /\ UNCHANGED <<_joins, _where_clause, _having_clause, _order_clause, _limit_value,
                   _offset_value, data, where_calls, order_args, join_calls>>

having ==
    /\ kind = "select"
    /\ Call("having")
    /\ \E c \in HavingInputs : _having_clause' = Some(c)
    /\ UNCHANGED <<_joins, _where_clause, _group_clause, _order_clause, _limit_value,
                   _offset_value, data, where_calls, order_args, join_calls>>

\* order_by() that starts the ORDER BY list afresh on every call
OrderByReplacing(clauses) ==
    /\ kind = "select"
    /\ Call("order_by")
    /\ _order_clause' = Some(MapSeq(ToOrderByClause, clauses))
    /\ order_args' = order_args \o clauses
    /\ UNCHANGED <<_joins, _where_clause, _group_clause, _having_clause, _limit_value,
                   _offset_value, data, where_calls, join_calls>>

\* SelectQueryReady.order_by
OrderBy(clauses) ==
    /\ kind = "select"
    /\ Call("order_by")
    /\ LET order_clauses == MapSeq(ToOrderByClause, clauses)
       IN _order_clause' = IF _order_clause = None THEN Some(order_clauses)
                           ELSE Some(_order_clause[1] \o order_clauses)
    /\ order_args' = order_args \o clauses
    /\ UNCHANGED <<_joins, _where_clause, _group_clause, _having_clause, _limit_value,
                   _offset_value, data, where_calls, join_calls>>

order_by == \E clauses \in OrderInputs : OrderBy(clauses)

limit ==
    /\ kind = "select"
    /\ Call("limit")
    /\ \E n \in LimitInputs : _limit_value' = Some(n)
    /\ UNCHANGED <<_joins, _where_clause, _group_clause, _having_clause, _order_clause,
                   _offset_value, data, where_calls, order_args, join_calls>>

offset ==
    /\ kind = "select"
    /\ Call("offset")
    /\ \E n \in OffsetInputs : _offset_value' = Some(n)
    /\ UNCHANGED <<_joins, _where_clause, _group_clause, _having_clause, _order_clause,
                   _limit_value, data, where_calls, order_args, join_calls>>

\* SelectQueryReady.sql: nothing of the builder changes
sql ==
    /\ kind = "select"
    /\ query' = Some(SelectSql)
    /\ UNCHANGED <<kind, table, _distinct, _joins, _where_clause, _group_clause, _having_clause,
                   _order_clause, _limit_value, _offset_value, data, where_calls, order_args,
                   called, ncalls, sortVars, clauseVars, join_calls, otherVars>>

\* UpdateQuery.set
set ==
    /\ kind = "update"
    /\ Call("set")
    /\ \E d \in DataInputs : data' = Some(d)
    /\ UNCHANGED <<_joins, _where_clause, _group_clause, _having_clause, _order_clause,
                   _limit_value, _offset_value, where_calls, order_args, join_calls>>

update_where == \E where_clause \in WhereInputs : Where("update", where_clause)

\* UpdateQuery._build_sql
_build_sql ==
    /\ kind = "update"
    /\ query' = Some(UpdateBuildSql)
    /\ UNCHANGED <<kind, table, _distinct, _joins, _where_clause, _group_clause, _having_clause,
                   _order_clause, _limit_value, _offset_value, data, where_calls, order_args,
                   called, ncalls, sortVars, clauseVars, join_calls, otherVars>>

Next ==
    \/ left_join
    \/ right_join
    \/ inner_join
    \/ full_join
    \/ cross_join
    \/ where
    \/ group_by
    \/ having
    \/ order_by
    \/ limit
    \/ offset
    \/ sql
    \/ set
    \/ update_where
    \/ _build_sql

Spec == BuilderInit /\ [][Next]_vars

\* ------------------------------------------------------------------------
\* Properties of rendering
\* ------------------------------------------------------------------------
\* the last call rendered a statement
Rendered == query # None /\ "sql" \in DOMAIN query[1]

PlaceholderPositions(text) == {p \in DOMAIN text : text[p].k = "ph"}
PlaceholderNames(text) == {text[p].v : p \in PlaceholderPositions(text)}

IsClauseToken(tok) == tok.k = "clause"

\* the clause keywords of a statement, in text order
ClauseKeywords(text) == MapSeq(LAMBDA tok : tok.v, SelectSeq(text, IsClauseToken))

\* the keyword of the clause the piece at position p belongs to
ClauseAt(text, p) ==
    LET before == {q \in 1..p : text[q].k = "clause"}
    IN text[CHOOSE q \in before : \A r \in before : r <= q].v

\* the bind indices used inside the clauses with one of the given keywords
IndicesIn(text, keywords) ==
    {text[p].i : p \in {q \in PlaceholderPositions(text) : ClauseAt(text, q) \in keywords}}

\* the pieces that follow the WHERE keyword, up to the next clause keyword
WhereSection(text) ==
    LET ps == {p \in DOMAIN text : text[p].k # "clause" /\ ClauseAt(text, p) = "WHERE"}
    IN [i \in 1..Cardinality(ps) |-> text[(CHOOSE q \in ps : \A r \in ps : q <= r) + i - 1]]

JoinKeywords == {"LEFT JOIN", "RIGHT JOIN", "INNER JOIN", "FULL OUTER JOIN", "CROSS JOIN"}

\* C3: all bound-parameter names produced during one render of a SELECT or
\* an UPDATE are pairwise distinct, so no merge of parameter maps overwrites
\* a value: there are as many parameters as placeholders.
C3_BindNamesDistinct ==
    Rendered =>
        LET text == query[1].sql
        IN /\ \A p, q \in PlaceholderPositions(text) : p # q => text[p].v # text[q].v
           /\ Cardinality(DOMAIN query[1].params) = Cardinality(PlaceholderPositions(text))

C3_Witness ==
    /\ Rendered
    /\ kind = "select"
    /\ _where_clause = Some(And(Eq(UserId, Lit(1)), Eq(UserId, Lit(1))))
    /\ _having_clause = Some(And(Eq(UserId, Lit(1)), Eq(UserId, Lit(1))))
    /\ Cardinality(PlaceholderPositions(query[1].sql)) = 4

\* C4: in every rendered SELECT or UPDATE the placeholder names of the SQL
\* text are exactly the keys of the params map.
C4_PlaceholdersAreParams ==
    Rendered => PlaceholderNames(query[1].sql) = DOMAIN query[1].params

C4_Witness ==
    /\ Rendered
    /\ kind = "select"
    /\ Len(_joins) = 2
    /\ _joins[1] = CrossJoin("message")
    /\ _joins[2].cls = "LeftJoin" /\ _joins[2].on = Eq(UserId, MessageUserId)
    /\ _where_clause = Some(Or(And(Eq(UserId, MessageUserId), Between(UserId, 1, 3)), Not(Like(UserEmail, Lit(2)))))
    /\ Cardinality(DOMAIN query[1].params) = 3

\* C6: whatever the order of the builder calls, sql() writes the clauses in
\* the order SELECT [DISTINCT], FROM, the joins in the order they were
\* added, WHERE, GROUP BY, HAVING, ORDER BY, LIMIT, OFFSET, and writes an
\* optional clause only when its builder method was called.
JoinKeywordOf(method) ==
    CASE method = "left_join" -> "LEFT JOIN"
      [] method = "right_join" -> "RIGHT JOIN"
      [] method = "inner_join" -> "INNER JOIN"
      [] method = "full_join" -> "FULL OUTER JOIN"
      [] method = "cross_join" -> "CROSS JOIN"

IfCalled(method, keyword) == IF method \in called THEN <<keyword>> ELSE <<>>

C6_ClauseOrder ==
    (Rendered /\ kind = "select") =>
        ClauseKeywords(query[1].sql) =
            <<"SELECT">> \o (IF _distinct THEN <<"DISTINCT">> ELSE <<>>) \o <<"FROM">>
            \o MapSeq(JoinKeywordOf, join_calls)
            \o IfCalled("where", "WHERE") \o IfCalled("group_by", "GROUP BY")
            \o IfCalled("having", "HAVING") \o IfCalled("order_by", "ORDER BY")
            \o IfCalled("limit", "LIMIT") \o IfCalled("offset", "OFFSET")

C6_Witness ==
    /\ Rendered
    /\ kind = "select"
    /\ join_calls = <<"right_join", "left_join">>
    /\ called = {"right_join", "left_join", "offset"}
    /\ ClauseKeywords(query[1].sql) = <<"SELECT", "FROM", "RIGHT JOIN", "LEFT JOIN", "OFFSET">>

\* C8: in one SELECT render the bind indices increase in text order: every
\* index of a join ON-clause is below every index of WHERE, which is below
\* every index of HAVING, and an index is repeated only by the two bounds
\* of one BETWEEN.
C8_IndicesIncrease ==
    (Rendered /\ kind = "select") =>
        LET text == query[1].sql
        IN /\ \A p, q \in PlaceholderPositions(text) :
                p < q => \/ text[p].i < text[q].i
                         \/ (text[p].i = text[q].i /\ q = p + 2 /\ text[p + 1].v = "AND")
           /\ \A a \in IndicesIn(text, JoinKeywords) : \A b \in IndicesIn(text, {"WHERE"}) : a < b
           /\ \A a \in IndicesIn(text, JoinKeywords \cup {"WHERE"}) : \A b \in IndicesIn(text, {"HAVING"}) : a < b

C8_Witness ==
    /\ Rendered
    /\ kind = "select"
    /\ IndicesIn(query[1].sql, JoinKeywords) = {1}
    /\ IndicesIn(query[1].sql, {"WHERE"}) = {2, 3, 4}
    /\ IndicesIn(query[1].sql, {"HAVING"}) = {5, 6}

\* C9: where() replaces: after any number of where() calls on the SELECT or
\* the UPDATE builder, the rendered WHERE condition is the clause of the
\* last call alone, and every bound parameter has its placeholder in the
\* text, so nothing of an earlier clause is left.
CountBeforeWhere ==
    IF kind = "select" THEN JoinsSql(_joins, 1, -1).count ELSE Setters(data[1], 1, -1).count

C9_WhereReplaces ==
    (Rendered /\ where_calls # <<>>) =>
        LET text == query[1].sql
            last == WhereGet(where_calls[Len(where_calls)], CountBeforeWhere)
        IN /\ WhereSection(text) = last.sql
           /\ Len(SelectSeq(text, LAMBDA tok : tok = Tok("clause", "WHERE"))) = 1
           /\ \A n \in DOMAIN last.params : n \in DOMAIN query[1].params /\ query[1].params[n] = last.params[n]
           /\ DOMAIN query[1].params = PlaceholderNames(text)

C9_Witness ==
    /\ Rendered
    /\ kind = "update"
    /\ where_calls = <<Between(UserId, 2, 3), Eq(UserId, Lit(1))>>
    /\ data = Some(<<[field |-> "email", value |-> 1]>>)
    /\ DOMAIN query[1].params = {"set_email_0", "eq_id_1"}

\* C10: order_by() is additive: the stored ordering clauses are the
\* arguments of all calls in call order; a bare column is stored as an
\* implicit-ascending clause, Asc and Desc as given, an Sql value as a raw
\* order expression.
C10_OrderByAdditive ==
    /\ (_order_clause = None) = ("order_by" \notin called)
    /\ _order_clause # None =>
        /\ Len(_order_clause[1]) = Len(order_args)
        /\ \A i \in DOMAIN order_args :
            LET arg == order_args[i]
                kept == _order_clause[1][i]
            IN /\ IsColumnInfo(arg) => kept = BareColumn(arg)
               /\ ("order" \in DOMAIN arg) => kept = arg
               /\ ("template" \in DOMAIN arg) => kept = RawSqlOrder(arg)

C10_Witness ==
    /\ kind = "select"
    /\ order_args = <<Sql("{User.id} DESC"), Desc(UserEmail, "first"), UserId>>
    /\ _order_clause = Some(<<RawSqlOrder(Sql("{User.id} DESC")), Desc(UserEmail, "first"), BareColumn(UserId)>>)

\* C11: update(T).set(d).where(c) renders one SET placeholder per entry of
\* d, the i-th named set_<field>_<i> with index i counted from 0; the WHERE
\* clause continues the same counter, so every WHERE index is at least |d|,
\* and no parameter name is shared between SET and WHERE.
SetPositions(text) == {p \in PlaceholderPositions(text) : ClauseAt(text, p) = "SET"}

WherePositions(text) == {p \in PlaceholderPositions(text) : ClauseAt(text, p) = "WHERE"}

C11_SetIndices ==
    (Rendered /\ kind = "update") =>
        LET text == query[1].sql
            d == data[1]
        IN /\ Cardinality(SetPositions(text)) = Len(d)
           /\ {text[p].v : p \in SetPositions(text)}
                  = {"set_" \o d[n].field \o "_" \o ToString(n - 1) : n \in DOMAIN d}
           /\ IndicesIn(text, {"SET"}) = 0..(Len(d) - 1)
           /\ \A b \in IndicesIn(text, {"WHERE"}) : b >= Len(d)
           /\ {text[p].v : p \in SetPositions(text)} \cap {text[p].v : p \in WherePositions(text)} = {}
           /\ \A n \in DOMAIN d : query[1].params["set_" \o d[n].field \o "_" \o ToString(n - 1)] = d[n].value

C11_Witness ==
    /\ Rendered
    /\ kind = "update"
    /\ data = Some(<<[field |-> "email", value |-> 1]>>)
    /\ _where_clause = Some(Eq(UserId, Lit(1)))
    /\ PlaceholderNames(query[1].sql) = {"set_email_0", "eq_id_1"}
    /\ Cardinality(SetPositions(query[1].sql)) = 1
    /\ Cardinality(WherePositions(query[1].sql)) = 1

\* ------------------------------------------------------------------------
\* Properties of a single clause
\* ------------------------------------------------------------------------
UserIdFqn == Tok("col", "\"user\".\"id\"")

\* C5: And(Eq(col,1), Or(Eq(col,2), Eq(col,3))) renders as
\* <fqn> = %(eq_col_0)s AND (<fqn> = %(eq_col_1)s OR <fqn> = %(eq_col_2)s),
\* the nested Or in parentheses, with params {eq_col_0: 1, eq_col_1: 2,
\* eq_col_2: 3}.
C5_NestedOrParenthesised ==
    (rendered # None
     /\ clause = Some(And(Eq(UserId, Lit(1)), Or(Eq(UserId, Lit(2)), Eq(UserId, Lit(3)))))) =>
        /\ rendered[1].sql =
              <<UserIdFqn, Tok("op", "="), Placeholder("eq_id_0", 0), Tok("op", "AND"), Tok("op", "("),
                UserIdFqn, Tok("op", "="), Placeholder("eq_id_1", 1), Tok("op", "OR"),
                UserIdFqn, Tok("op", "="), Placeholder("eq_id_2", 2), Tok("op", ")")>>
        /\ DOMAIN rendered[1].params = {"eq_id_0", "eq_id_1", "eq_id_2"}
        /\ rendered[1].params["eq_id_0"] = 1
        /\ rendered[1].params["eq_id_1"] = 2
        /\ rendered[1].params["eq_id_2"] = 3

\* the SQL operator each comparison class stands for
OperatorOf(op) ==
    CASE op = "Eq" -> "="
      [] op = "Ne" -> "!="
      [] op = "Gt" -> ">"
      [] op = "Gte" -> ">="
      [] op = "Lt" -> "<"
      [] op = "Lte" -> "<="
      [] op = "Like" -> "LIKE"
      [] op = "Ilike" -> "ILIKE"
      [] op = "NotLike" -> "NOT LIKE"

\* C7: a comparison node with a literal right operand renders
\* <left.fqn> <op> %(name)s and binds one parameter; with a column right
\* operand it renders <left.fqn> <op> <right.fqn> with the operator of the
\* same node and binds nothing.
C7_ComparisonOperator ==
    (rendered # None /\ clause[1].op \in ComparisonOps) =>
        LET node == clause[1]
            out == rendered[1]
        IN /\ Len(out.sql) = 3
           /\ out.sql[1] = Tok("col", ColumnFqn(node.left))
           /\ out.sql[2] = Tok("op", OperatorOf(node.op))
           /\ IF IsColumnInfo(node.right)
              THEN out.sql[3] = Tok("col", ColumnFqn(node.right)) /\ DOMAIN out.params = {}
              ELSE out.sql[3].k = "ph" /\ DOMAIN out.params = {out.sql[3].v}
                   /\ out.params[out.sql[3].v] = node.right.value

\* ------------------------------------------------------------------------
\* Python values as the database clients see them
\* ------------------------------------------------------------------------
\* a text is its sequence of characters; a value is one of the records below
IntValue(n) == [int |-> n]
StrValue(chars) == [str |-> chars]
BoolValue(b) == [bool |-> b]
NullValue == [null |-> TRUE]
ListValue(vs) == [list |-> vs]
DatetimeValue(fs) == [datetime |-> fs]

\* isinstance(value, str)
IsStr(value) == "str" \in DOMAIN value

HasPyType(value, py_type) ==
    \/ py_type = "int" /\ "int" \in DOMAIN value
    \/ py_type = "str" /\ "str" \in DOMAIN value

Digits == <<"0", "1", "2", "3", "4", "5", "6", "7", "8", "9">>
IsDigit(c) == c \in Range(Digits)
DigitOf(c) == (CHOOSE d \in DOMAIN Digits : Digits[d] = c) - 1

\* the position of the first character at or after p that is not a space
RECURSIVE SkipSpaces(_, _)
SkipSpaces(s, p) == IF p <= Len(s) /\ s[p] = " " THEN SkipSpaces(s, p + 1) ELSE p

\* how many digits stand at p and after it
RECURSIVE DigitRun(_, _)
DigitRun(s, p) == IF p <= Len(s) /\ IsDigit(s[p]) THEN 1 + DigitRun(s, p + 1) ELSE 0

\* the number written by the n digits from p
RECURSIVE Number(_, _, _)
Number(s, p, n) == IF n = 0 THEN 0 ELSE Number(s, p, n - 1) * 10 + DigitOf(s[p + n - 1])

StartsWith(s, p, w) == p + Len(w) - 1 <= Len(s) /\ SubSeq(s, p, p + Len(w) - 1) = w

Parsed(value, p) == [value |-> value, ok |-> TRUE, pos |-> p]
ParseError == [ok |-> FALSE]

\* ------------------------------------------------------------------------
\* json.loads on a text: numbers without fraction or exponent, true, false,
\* null, strings without escapes, arrays; spaces are the only whitespace
\* ------------------------------------------------------------------------
ParseNumber(s, p) ==
    LET neg == s[p] = "-"
        q == IF neg THEN p + 1 ELSE p
        run == DigitRun(s, q)
        n == IF run > 0 /\ s[q] = "0" THEN 1 ELSE run
        num == Number(s, q, n)
    IN IF n = 0 THEN ParseError
       ELSE Parsed(IntValue(IF neg THEN 0 - num ELSE num), q + n)

ParseString(s, p) ==
    LET closing == {q \in (p + 1)..Len(s) : s[q] = "\""}
        q == CHOOSE c \in closing : \A d \in closing : c <= d
    IN IF closing = {} THEN ParseError
       ELSE Parsed(StrValue(SubSeq(s, p + 1, q - 1)), q + 1)

RECURSIVE ParseValue(_, _)
RECURSIVE ParseElements(_, _, _)
ParseValue(s, p) ==
    IF p > Len(s) THEN ParseError
    ELSE CASE s[p] = "\"" -> ParseString(s, p)
           [] s[p] = "[" ->
                LET q == SkipSpaces(s, p + 1)
                IN IF q <= Len(s) /\ s[q] = "]" THEN Parsed(ListValue(<<>>), q + 1)
                   ELSE ParseElements(s, q, <<>>)
           [] s[p] = "-" \/ IsDigit(s[p]) -> ParseNumber(s, p)
           [] StartsWith(s, p, <<"t", "r", "u", "e">>) -> Parsed(BoolValue(TRUE), p + 4)
           [] StartsWith(s, p, <<"f", "a", "l", "s", "e">>) -> Parsed(BoolValue(FALSE), p + 5)
           [] StartsWith(s, p, <<"n", "u", "l", "l">>) -> Parsed(NullValue, p + 4)
           [] OTHER -> ParseError

ParseElements(s, p, acc) ==
    LET v == ParseValue(s, p)
        q == SkipSpaces(s, v.pos)
    IN IF ~v.ok THEN ParseError
       ELSE IF q > Len(s) THEN ParseError
       ELSE IF s[q] = "]" THEN Parsed(ListValue(Append(acc, v.value)), q + 1)
       ELSE IF s[q] = "," THEN ParseElements(s, SkipSpaces(s, q + 1), Append(acc, v.value))
       ELSE ParseError

\* json.loads(value): a JSONDecodeError unless the whole text is one value
JsonLoads(s) ==
    LET v == ParseValue(s, SkipSpaces(s, 1))
    IN IF v.ok /\ SkipSpaces(s, v.pos) > Len(s) THEN v ELSE ParseError

\* ------------------------------------------------------------------------
\* datetime.strptime(value, "%Y-%m-%d %H:%M:%S")
\* ------------------------------------------------------------------------
IsLeap(y) == (y % 4 = 0 /\ y % 100 # 0) \/ y % 400 = 0

DaysInMonth(y, m) ==
    IF m = 2 THEN (IF IsLeap(y) THEN 29 ELSE 28)
    ELSE IF m \in {4, 6, 9, 11} THEN 30 ELSE 31

Strptime(s) ==
    LET At(p, c) == p <= Len(s) /\ s[p] = c
        nY == DigitRun(s, 1)
        pm == nY + 2
        nm == DigitRun(s, pm)
        pd == pm + nm + 1
        nd == DigitRun(s, pd)
        pH == SkipSpaces(s, pd + nd)
        nH == DigitRun(s, pH)
        pM == pH + nH + 1
        nM == DigitRun(s, pM)
        pS == pM + nM + 1
        nS == DigitRun(s, pS)
        Y == Number(s, 1, nY)
        m == Number(s, pm, nm)
        d == Number(s, pd, nd)
        H == Number(s, pH, nH)
        M == Number(s, pM, nM)
        S == Number(s, pS, nS)
    IN IF /\ nY = 4 /\ At(5, "-")
          /\ nm \in 1..2 /\ At(pm + nm, "-")
          /\ nd \in 1..2 /\ pH > pd + nd
          /\ nH \in 1..2 /\ At(pH + nH, ":")
          /\ nM \in 1..2 /\ At(pM + nM, ":")
          /\ nS \in 1..2 /\ pS + nS - 1 = Len(s)
          /\ Y >= 1 /\ m \in 1..12 /\ d \in 1..DaysInMonth(Y, m)
          /\ H <= 23 /\ M <= 59 /\ S <= 59
       THEN Parsed(DatetimeValue(<<Y, m, d, H, M, S>>), Len(s) + 1)
       ELSE ParseError

\* ------------------------------------------------------------------------
\* Table.column_names and Table.value_dict  (embar/table.py)
\* ------------------------------------------------------------------------
FieldBaseNames == {"id", "email", "user_id", "token"}

\* attr_name.startswith("_")
StartsWithUnderscore(attr_name) == \E base \in FieldBaseNames : attr_name = "_" \o base

\* column_names().values(): the column of every entry of _fields
RECURSIVE ColumnNameValues(_, _)
ColumnNameValues(cols, n) ==
    IF n > Len(cols) THEN <<>> ELSE <<cols[n].name>> \o ColumnNameValues(cols, n + 1)

\* value_dict(): column name -> attribute value, skipping the attributes
\* whose name starts with an underscore
RECURSIVE ValueDict(_, _, _)
ValueDict(cols, row, n) ==
    IF n > Len(cols) THEN NoParams
    ELSE IF StartsWithUnderscore(cols[n].field) THEN ValueDict(cols, row, n + 1)
    ELSE MergeParams(cols[n].name :> row[cols[n].field], ValueDict(cols, row, n + 1))

\* ------------------------------------------------------------------------
\* InsertQueryReady.sql and InsertQueryReturning.sql  (embar/query/insert.py)
\* ------------------------------------------------------------------------
RECURSIVE QuotedColumns(_, _)
QuotedColumns(column_names, n) ==
    IF n > Len(column_names) THEN <<>>
    ELSE <<Tok("setcol", "\"" \o column_names[n] \o "\"")>>
         \o (IF n < Len(column_names) THEN <<Tok("op", ",")>> ELSE <<>>)
         \o QuotedColumns(column_names, n + 1)

RECURSIVE Placeholders(_, _)
Placeholders(column_names, n) ==
    IF n > Len(column_names) THEN <<>>
    ELSE <<Placeholder(column_names[n], -1)>>
         \o (IF n < Len(column_names) THEN <<Tok("op", ",")>> ELSE <<>>)
         \o Placeholders(column_names, n + 1)

PlaceholderNamesOf(text) == {text[p].v : p \in {q \in DOMAIN text : text[q].k = "ph"}}

QueryMany(text, many_params) == [sql |-> text, many_params |-> many_params]

InsertText(t) ==
    LET column_names == ColumnNameValues(ColumnNames[t], 1)
    IN <<Tok("clause", "INSERT INTO"), Tok("table", TableFqn(t)), Tok("op", "(")>>
       \o QuotedColumns(column_names, 1)
       \o <<Tok("op", ")"), Tok("clause", "VALUES"), Tok("op", "(")>>
       \o Placeholders(column_names, 1)
       \o <<Tok("op", ")")>>

InsertSql(t, rows) ==
    QueryMany(InsertText(t), [n \in DOMAIN rows |-> ValueDict(ColumnNames[t], rows[n], 1)])

InsertReturningSql(t, rows) ==
    QueryMany(InsertText(t) \o <<Tok("clause", "RETURNING *")>>,
              [n \in DOMAIN rows |-> ValueDict(ColumnNames[t], rows[n], 1)])

\* ------------------------------------------------------------------------
\* The database clients  (embar/db/sqlite.py, embar/db/pg.py)
\* ------------------------------------------------------------------------
\* sqlite.py lines 130-137 with the strptime fallback left out
ConvertValueJsonOnly(value) ==
    IF IsStr(value)
    THEN LET decoded == JsonLoads(value.str)
         IN IF decoded.ok THEN decoded.value ELSE value
    ELSE value

\* sqlite.py lines 130-137: what fetch() puts in the row for one value
ConvertValue(value) ==
    IF IsStr(value)
    THEN LET decoded == JsonLoads(value.str)
             parsed == Strptime(value.str)
         IN IF decoded.ok THEN decoded.value
            ELSE IF parsed.ok THEN parsed.value
            ELSE value
    ELSE value

\* the cursor's rows for SELECT <column> AS "<field>", ... FROM <table>
CursorRows(t, rows) ==
    [n \in DOMAIN rows |->
        [f \in {c.field : c \in Range(DirColumns[t])} |->
            rows[n][(CHOOSE c \in Range(DirColumns[t]) : c.field = f).name]]]

SqliteFetch(t, rows) ==
    LET cursor == CursorRows(t, rows)
    IN [n \in DOMAIN cursor |-> [f \in DOMAIN cursor[n] |-> ConvertValue(cursor[n][f])]]

PgFetch(t, rows) == CursorRows(t, rows)

Fetch(db, t, rows) == IF db = "sqlite" THEN SqliteFetch(t, rows) ELSE PgFetch(t, rows)

\* executemany: every placeholder of the statement needs its parameter
CanBind(q) ==
    \A n \in DOMAIN q.many_params : PlaceholderNamesOf(q.sql) \subseteq DOMAIN q.many_params[n]

\* dacite.from_dict(selection, d) with the dataclass generated for the table:
\* the value of every field has the column's Python type, or it raises
WellTyped(t, d) ==
    \A c \in Range(DirColumns[t]) : HasPyType(d[c.field], c.py)

\* ------------------------------------------------------------------------
\* Inserting rows and reading them back
\* ------------------------------------------------------------------------
InsertTables == {"user", "message", "account"}

DbTypes == {"postgres", "sqlite"}

TextInputs ==
    {<<"h", "i">>,
     <<>>,
     <<"1", "2">>,
     <<"t", "r", "u", "e">>,
     <<"\"", "x", "\"">>,
     <<"[", "1", ",", " ", "-", "2", "]">>,
     <<"2", "0", "2", "4", "-", "0", "2", "-", "2", "9", " ", "1", "0", ":", "3", "0", ":", "0", "0">>,
     <<"2", "0", "2", "3", "-", "0", "2", "-", "2", "9", " ", "1", "0", ":", "3", "0", ":", "0", "0">>}

IntInputs == {1, 2}

\* the values a column of the given Python type is given by the caller
ValuesOf(py_type) ==
    IF py_type = "int" THEN {IntValue(n) : n \in IntInputs} ELSE {StrValue(a) : a \in TextInputs}

\* the instances of a table: field -> value
RowsOf(t) ==
    LET cols == Range(ColumnNames[t])
        py(f) == (CHOOSE c \in cols : c.field = f).py
    IN {row \in [{c.field : c \in cols} -> UNION {ValuesOf(c.py) : c \in cols}] :
            \A f \in DOMAIN row : row[f] \in ValuesOf(py(f))}

RowSeqs(t) == UNION {[1..n -> RowsOf(t)] : n \in 0..MaxRows}

InsertInit ==
    /\ db_type \in DbTypes
    /\ ins_table \in InsertTables
    /\ ins_stage = "InsertQuery"
    /\ items = <<>>
    /\ many_query = None
    /\ stored = <<>>
    /\ fetched = None
    /\ results = None
    /\ SortIdle
    /\ BuilderIdle
    /\ ClauseIdle
    /\ SelectionIdle
    /\ TemplateIdle
    /\ MoreIdle

exceptInsertVars == <<sortVars, builderVars, clauseVars, selectionVars, templateVars, moreVars>>

\* InsertQuery.values
values ==
    /\ ins_stage = "InsertQuery"
    /\ \E rows \in RowSeqs(ins_table) : items' = rows
    /\ ins_stage' = "InsertQueryReady"
    /\ UNCHANGED <<db_type, ins_table, many_query, stored, fetched, results, exceptInsertVars>>

\* InsertQueryReady.returning
returning ==
    /\ ins_stage = "InsertQueryReady"
    /\ ins_stage' = "InsertQueryReturning"
    /\ many_query' = None
    /\ UNCHANGED <<db_type, ins_table, items, stored, fetched, results, exceptInsertVars>>

\* InsertQueryReady.sql
insert_sql ==
    /\ ins_stage = "InsertQueryReady"
    /\ many_query' = Some(InsertSql(ins_table, items))
    /\ UNCHANGED <<db_type, ins_table, ins_stage, items, stored, fetched, results, exceptInsertVars>>

\* InsertQueryReturning.sql
returning_sql ==
    /\ ins_stage = "InsertQueryReturning"
    /\ many_query' = Some(InsertReturningSql(ins_table, items))
    /\ UNCHANGED <<db_type, ins_table, ins_stage, items, stored, fetched, results, exceptInsertVars>>

\* InsertQueryReady.run: sql() and db.executemany(query)
insert_run ==
    /\ ins_stage = "InsertQueryReady"
    /\ Len(stored) + Len(items) <= MaxRows
    /\ LET q == InsertSql(ins_table, items)
       IN /\ many_query' = Some(q)
          /\ IF CanBind(q)
             THEN /\ stored' = stored \o q.many_params
                  /\ results' = Some([rows |-> <<>>])
             ELSE /\ stored' = stored
                  /\ results' = Some([raised |-> "ProgrammingError"])
    /\ fetched' = None
    /\ UNCHANGED <<db_type, ins_table, ins_stage, items, exceptInsertVars>>

\* db.select(SelectAll).fromm(table).run(): sql(), db.fetch(query) and
\* from_dict on every row
select_run ==
    /\ ins_stage # "InsertQuery"
    /\ LET rows == Fetch(db_type, ins_table, stored)
       IN /\ fetched' = Some(rows)
          /\ results' = IF \A n \in DOMAIN rows : WellTyped(ins_table, rows[n])
                        THEN Some([rows |-> rows])
                        ELSE Some([raised |-> "WrongTypeError"])
    /\ UNCHANGED <<db_type, ins_table, ins_stage, items, many_query, stored, exceptInsertVars>>

InsertNext ==
    \/ values
    \/ returning
    \/ insert_sql
    \/ returning_sql
    \/ insert_run
    \/ select_run

SpecInsert == InsertInit /\ [][InsertNext]_vars

\* ------------------------------------------------------------------------
\* Properties of INSERT and of reading rows back
\* ------------------------------------------------------------------------
\* the values of the pieces of one kind, in text order
PiecesOf(text, piece_kind) == MapSeq(LAMBDA tok : tok.v, SelectSeq(text, LAMBDA tok : tok.k = piece_kind))

Quoted(names) == [n \in DOMAIN names |-> "\"" \o names[n] \o "\""]

\* C12: for every table and every non-empty sequence of rows the rendered
\* INSERT names the table, lists the quoted column names and one
\* placeholder per column in the same order; many_params has one map per
\* row, in row order, whose keys are exactly the placeholder names (the
\* column names) and whose values are the row's values; after returning()
\* the statement is the same with RETURNING * appended.
C12_InsertRendersRows ==
    (many_query # None /\ items # <<>>) =>
        LET q == many_query[1]
            cols == ColumnNames[ins_table]
            column_names == [n \in DOMAIN cols |-> cols[n].name]
        IN /\ ClauseKeywords(q.sql) =
                  <<"INSERT INTO", "VALUES">>
                  \o (IF ins_stage = "InsertQueryReturning" THEN <<"RETURNING *">> ELSE <<>>)
           /\ PiecesOf(q.sql, "table") = <<TableFqn(ins_table)>>
           /\ PiecesOf(q.sql, "setcol") = Quoted(column_names)
           /\ PiecesOf(q.sql, "ph") = column_names
           /\ Len(q.many_params) = Len(items)
           /\ \A n \in DOMAIN items :
                /\ DOMAIN q.many_params[n] = PlaceholderNames(q.sql)
                /\ \A c \in DOMAIN cols :
                     cols[c].name \in DOMAIN q.many_params[n]
                     /\ q.many_params[n][cols[c].name] = items[n][cols[c].field]

\* C13: round trip: after rows were inserted, selecting with SelectAll from
\* the same table returns, on the Postgres and on the SQLite client, rows
\* equal field by field to the inserted ones, whatever the text values look
\* like and whether or not a column is named like its field.
RoundTrip ==
    /\ "rows" \in DOMAIN results[1]
    /\ Len(results[1].rows) = Len(stored)
    /\ \A n \in DOMAIN stored :
         LET row == items[((n - 1) % Len(items)) + 1]
         IN \A f \in DOMAIN row : results[1].rows[n][f] = row[f]

C13_RoundTrip ==
    (fetched # None /\ stored # <<>>) => RoundTrip

\* C16: every string value of a row fetched by the SQLite client is
\* replaced by its JSON-decoded value when the string is valid JSON,
\* otherwise by the parsed date-time when it matches '%Y-%m-%d %H:%M:%S',
\* otherwise it is kept; a value that is not a string is returned unchanged.
IsValidJson(chars) == JsonLoads(chars).ok

MatchesTimestamp(chars) == Strptime(chars).ok

C16_SqliteFetchFallback ==
    (fetched # None /\ db_type = "sqlite") =>
        LET cursor == CursorRows(ins_table, stored)
        IN /\ DOMAIN fetched[1] = DOMAIN cursor
           /\ \A n \in DOMAIN cursor :
                /\ DOMAIN fetched[1][n] = DOMAIN cursor[n]
                /\ \A f \in DOMAIN cursor[n] :
                     LET raw == cursor[n][f]
                         out == fetched[1][n][f]
                     IN IF ~IsStr(raw) THEN out = raw
                        ELSE IF IsValidJson(raw.str) THEN out = JsonLoads(raw.str).value
                        ELSE IF MatchesTimestamp(raw.str) THEN out = Strptime(raw.str).value
                        ELSE out = raw

C16_Witness ==
    /\ db_type = "sqlite"
    /\ ins_table = "user"
    /\ fetched # None
    /\ Len(fetched[1]) = 2
    /\ fetched[1][1]["email"] = ListValue(<<IntValue(1), IntValue(0 - 2)>>)
    /\ fetched[1][1]["id"] = IntValue(2)
    /\ fetched[1][2]["email"] = DatetimeValue(<<2024, 2, 29, 10, 30, 0>>)
    /\ stored[2]["email_address"] # fetched[1][2]["email"]

\* ------------------------------------------------------------------------
\* Selection.to_sql_columns and _get_source_expr  (embar/query/selection.py)
\* ------------------------------------------------------------------------
\* the annotations of a Selection field next to a column itself
ManyColumn(column) == [cls |-> "ManyColumn", of |-> column]
OneTable(t) == [cls |-> "OneTable", of |-> t]
ManyTable(t) == [cls |-> "ManyTable", of |-> t]
Unannotated == [cls |-> "str"]

SelectionField(field_name, annotation) == [field |-> field_name, annotation |-> annotation]

\* lines 77-79 and 92-94: '<field>', <table>."<column>" for every column
RECURSIVE ColumnPairs(_, _, _)
ColumnPairs(t, columns, n) ==
    IF n > Len(columns) THEN <<>>
    ELSE <<Tok("key", "'" \o columns[n].field \o "'"), Tok("op", ","),
           Tok("col", TableFqn(t) \o ".\"" \o columns[n].name \o "\"")>>
         \o (IF n < Len(columns) THEN <<Tok("op", ",")>> ELSE <<>>)
         \o ColumnPairs(t, columns, n + 1)

Reversed(seq) == [n \in DOMAIN seq |-> seq[Len(seq) + 1 - n]]

FunctionCall(fn, args) == <<Tok("fn", fn), Tok("op", "(")>> \o args \o <<Tok("op", ")")>>

\* _get_source_expr that lists the columns of a table last to first for sqlite
GetSourceExprReversed(annotation, db) ==
    LET pairs(t) == ColumnPairs(t, IF db = "sqlite" THEN Reversed(ColumnNames[t]) ELSE ColumnNames[t], 1)
    IN IF IsColumnInfo(annotation) THEN [sql |-> <<Tok("col", ColumnFqn(annotation))>>]
       ELSE IF "template" \in DOMAIN annotation THEN [sql |-> <<Tok("raw", annotation.template)>>]
       ELSE IF annotation.cls = "ManyColumn"
       THEN [sql |-> FunctionCall(IF db = "postgres" THEN "array_agg" ELSE "json_group_array",
                                  <<Tok("col", ColumnFqn(annotation.of))>>)]
       ELSE IF annotation.cls = "OneTable"
       THEN [sql |-> FunctionCall(IF db = "postgres" THEN "json_build_object" ELSE "json_object",
                                  pairs(annotation.of))]
       ELSE IF annotation.cls = "ManyTable"
       THEN [sql |-> IF db = "postgres"
                     THEN FunctionCall("json_agg", FunctionCall("json_build_object", pairs(annotation.of)))
                     ELSE FunctionCall("json_group_array", FunctionCall("json_object", pairs(annotation.of)))]
       ELSE [raised |-> "Exception"]

\* _get_source_expr: the source expression of one field for one dialect
GetSourceExpr(annotation, db) ==
    LET pairs(t) == ColumnPairs(t, ColumnNames[t], 1)
    IN IF IsColumnInfo(annotation) THEN [sql |-> <<Tok("col", ColumnFqn(annotation))>>]
       ELSE IF "template" \in DOMAIN annotation THEN [sql |-> <<Tok("raw", annotation.template)>>]
       ELSE IF annotation.cls = "ManyColumn"
       THEN [sql |-> FunctionCall(IF db = "postgres" THEN "array_agg" ELSE "json_group_array",
                                  <<Tok("col", ColumnFqn(annotation.of))>>)]
       ELSE IF annotation.cls = "OneTable"
       THEN [sql |-> FunctionCall(IF db = "postgres" THEN "json_build_object" ELSE "json_object",
                                  pairs(annotation.of))]
       ELSE IF annotation.cls = "ManyTable"
       THEN [sql |-> IF db = "postgres"
                     THEN FunctionCall("json_agg", FunctionCall("json_build_object", pairs(annotation.of)))
                     ELSE FunctionCall("json_group_array", FunctionCall("json_object", pairs(annotation.of)))]
       ELSE [raised |-> "Exception"]

\* to_sql_columns: '<source> AS "<field>"' for every field, joined by ', ';
\* the exception of a field without a source expression ends the call
RECURSIVE SelectionSqlColumns(_, _, _)
SelectionSqlColumns(cls_fields, db, n) ==
    IF n > Len(cls_fields) THEN [sql |-> <<>>]
    ELSE LET source == GetSourceExpr(cls_fields[n].annotation, db)
             rest == SelectionSqlColumns(cls_fields, db, n + 1)
         IN IF "raised" \in DOMAIN source THEN source
            ELSE IF "raised" \in DOMAIN rest THEN rest
            ELSE [sql |-> source.sql
                          \o <<Tok("op", "AS"), Tok("alias", "\"" \o cls_fields[n].field \o "\"")>>
                          \o (IF n < Len(cls_fields) THEN <<Tok("op", ",")>> ELSE <<>>)
                          \o rest.sql]

SelectionFields ==
    {SelectionField("id", UserId),
     SelectionField("email", UserEmail),
     SelectionField("emails", ManyColumn(UserEmail)),
     SelectionField("message", OneTable("message")),
     SelectionField("messages", ManyTable("message")),
     SelectionField("users", ManyTable("user")),
     SelectionField("n", Sql("COUNT({Message.id})")),
     SelectionField("note", Unannotated)}

Selections == UNION {[1..n -> SelectionFields] : n \in 1..MaxFields}

SelectionInit ==
    /\ sel \in Selections
    /\ projection = <<>>
    /\ SortIdle
    /\ BuilderIdle
    /\ ClauseIdle
    /\ InsertIdle
    /\ TemplateIdle
    /\ MoreIdle

\* Selection.to_sql_columns(db_type)
to_sql_columns ==
    /\ \E db \in DbTypes : projection' = (db :> SelectionSqlColumns(sel, db, 1)) @@ projection
    /\ UNCHANGED <<sel, sortVars, builderVars, clauseVars, insertVars, templateVars, moreVars>>

SelectionNext == to_sql_columns

SpecSelection == SelectionInit /\ [][SelectionNext]_vars

\* C14: the projection rendered for postgres and the one rendered for
\* sqlite differ in nothing but the function names (array_agg against
\* json_group_array, json_build_object against json_object, json_agg
\* against json_group_array): piece by piece they are the same, the pairs
\* '<field>', "<table>"."<column>" cover every column of the referenced
\* table in column order, and every field has its AS "<field>" alias.
DialectFunctions ==
    {<<"array_agg", "json_group_array">>,
     <<"json_build_object", "json_object">>,
     <<"json_agg", "json_group_array">>}

IsTableAnnotation(annotation) ==
    "cls" \in DOMAIN annotation /\ annotation.cls \in {"OneTable", "ManyTable"}

\* the keys of the pairs the fields of a selection ask for, in order
RECURSIVE ExpectedKeys(_, _)
ExpectedKeys(cls_fields, n) ==
    IF n > Len(cls_fields) THEN <<>>
    ELSE (IF IsTableAnnotation(cls_fields[n].annotation)
          THEN LET columns == ColumnNames[cls_fields[n].annotation.of]
               IN [c \in DOMAIN columns |-> "'" \o columns[c].field \o "'"]
          ELSE <<>>)
         \o ExpectedKeys(cls_fields, n + 1)

\* the columns the fields of a selection ask for, in order
RECURSIVE ExpectedColumns(_, _)
ExpectedColumns(cls_fields, n) ==
    IF n > Len(cls_fields) THEN <<>>
    ELSE LET annotation == cls_fields[n].annotation
         IN (IF IsColumnInfo(annotation) THEN <<ColumnFqn(annotation)>>
             ELSE IF "template" \in DOMAIN annotation THEN <<>>
             ELSE IF annotation.cls = "ManyColumn" THEN <<ColumnFqn(annotation.of)>>
             ELSE LET columns == ColumnNames[annotation.of]
                  IN [c \in DOMAIN columns |->
                        ColumnFqn([t |-> annotation.of, name |-> columns[c].name])])
            \o ExpectedColumns(cls_fields, n + 1)

BothRendered == DOMAIN projection = DbTypes

C14_DialectsAgree ==
    BothRendered =>
        LET pg == projection["postgres"]
            lite == projection["sqlite"]
        IN /\ ("raised" \in DOMAIN pg) = ("raised" \in DOMAIN lite)
           /\ "sql" \in DOMAIN pg =>
                /\ Len(pg.sql) = Len(lite.sql)
                /\ \A p \in DOMAIN pg.sql :
                     IF pg.sql[p].k = "fn"
                     THEN lite.sql[p].k = "fn" /\ <<pg.sql[p].v, lite.sql[p].v>> \in DialectFunctions
                     ELSE lite.sql[p] = pg.sql[p]
                /\ PiecesOf(pg.sql, "key") = ExpectedKeys(sel, 1)
                /\ PiecesOf(lite.sql, "key") = ExpectedKeys(sel, 1)
                /\ PiecesOf(pg.sql, "col") = ExpectedColumns(sel, 1)
                /\ PiecesOf(lite.sql, "col") = ExpectedColumns(sel, 1)
                /\ PiecesOf(pg.sql, "alias") = [n \in DOMAIN sel |-> "\"" \o sel[n].field \o "\""]
                /\ PiecesOf(lite.sql, "alias") = PiecesOf(pg.sql, "alias")

C14_Witness ==
    /\ BothRendered
    /\ sel = <<SelectionField("users", ManyTable("user")), SelectionField("message", OneTable("message"))>>
    /\ PiecesOf(projection["postgres"].sql, "fn") = <<"json_agg", "json_build_object", "json_build_object">>
    /\ PiecesOf(projection["sqlite"].sql, "fn") = <<"json_group_array", "json_object", "json_object">>
    /\ PiecesOf(projection["sqlite"].sql, "key") = <<"'id'", "'email'", "'id'", "'user_id'">>

\* ------------------------------------------------------------------------
\* SQLTemplate.__call__  (pudl/sql.py)
\* ------------------------------------------------------------------------
\* the parts a Template yields when iterated: texts and interpolations
Literal(text) == Tok("raw", text)
Interpolation(value) == [value |-> value]

\* what an interpolation can hold
TableType(t) == [table |-> t]
TableInstance(t) == [instance |-> t]
UserText(text) == [str |-> text]

\* isinstance(item, str)
IsLiteral(part) == "k" \in DOMAIN part

\* isinstance(value, type) and issubclass(value, TableBase)
IsTableType(value) == "table" \in DOMAIN value

Template(parts) == [template |-> parts]

\* isinstance(template_obj, Template)
IsTemplate(template) == "template" \in DOMAIN template

\* the loop of lines 16-29 writing str(value) for a value that is neither a
\* table nor a column
RECURSIVE ResultPartsLenient(_, _)
ResultPartsLenient(parts, n) ==
    IF n > Len(parts) THEN [sql |-> <<>>]
    ELSE LET rest == ResultPartsLenient(parts, n + 1)
             value == parts[n].value
             piece == IF IsLiteral(parts[n]) THEN parts[n]
                      ELSE IF IsTableType(value) THEN Tok("table", TableFqn(value.table))
                      ELSE IF IsColumnInfo(value) THEN Tok("col", ColumnFqn(value))
                      ELSE IF "str" \in DOMAIN value THEN Tok("raw", value.str)
                      ELSE IF "int" \in DOMAIN value THEN Tok("raw", ToString(value.int))
                      ELSE Tok("raw", value.instance)
         IN [sql |-> <<piece>> \o rest.sql]

\* lines 16-29: the parts in order; the first interpolation that is neither
\* a table type nor a column raises
RECURSIVE ResultParts(_, _)
ResultParts(parts, n) ==
    IF n > Len(parts) THEN [sql |-> <<>>]
    ELSE LET rest == ResultParts(parts, n + 1)
             value == parts[n].value
         IN IF IsLiteral(parts[n])
            THEN (IF "raised" \in DOMAIN rest THEN rest ELSE [sql |-> <<parts[n]>> \o rest.sql])
            ELSE IF IsTableType(value)
            THEN (IF "raised" \in DOMAIN rest THEN rest
                  ELSE [sql |-> <<Tok("table", TableFqn(value.table))>> \o rest.sql])
            ELSE IF IsColumnInfo(value)
            THEN (IF "raised" \in DOMAIN rest THEN rest
                  ELSE [sql |-> <<Tok("col", ColumnFqn(value))>> \o rest.sql])
            ELSE [raised |-> "Exception"]

SqlTemplateCall(template) ==
    IF ~IsTemplate(template) THEN [raised |-> "TypeError"]
    ELSE ResultParts(template.template, 1)

TemplateParts ==
    {Literal("SELECT * FROM "), Literal(" WHERE "),
     Interpolation(TableType("user")), Interpolation(TableType("message")),
     Interpolation(UserId), Interpolation(UserEmail),
     Interpolation(UserText("1; DROP TABLE user")), Interpolation(IntValue(5)),
     Interpolation(TableInstance("user"))}

\* iterating a Template never yields two texts in a row
Templates ==
    {Template(parts) : parts \in
        {ps \in UNION {[1..n -> TemplateParts] : n \in 0..MaxParts} :
            \A n \in 1..(Len(ps) - 1) : ~(IsLiteral(ps[n]) /\ IsLiteral(ps[n + 1]))}}

TemplateInit ==
    /\ template_obj \in Templates \cup {UserText("SELECT 1")}
    /\ template_out = None
    /\ SortIdle
    /\ BuilderIdle
    /\ ClauseIdle
    /\ InsertIdle
    /\ SelectionIdle
    /\ MoreIdle

\* SQLTemplate()(template_obj)
sql_template_call ==
    /\ template_out = None
    /\ template_out' = Some(SqlTemplateCall(template_obj))
    /\ UNCHANGED <<template_obj, sortVars, builderVars, clauseVars, insertVars, selectionVars, moreVars>>

TemplateNext == sql_template_call

SpecTemplate == TemplateInit /\ [][TemplateNext]_vars

\* C15: rendering a template gives the literal parts with every
\* interpolation replaced, in order, by the fully-qualified name of the
\* interpolated table or column; when an interpolation is neither a table
\* type nor a column the call raises and gives no SQL, so no piece of the
\* output comes from a caller's value.
IsReference(value) == IsTableType(value) \/ IsColumnInfo(value)

C15_TemplateRendering ==
    (template_out # None /\ IsTemplate(template_obj)) =>
        LET parts == template_obj.template
            out == template_out[1]
        IN IF \A n \in DOMAIN parts : IsLiteral(parts[n]) \/ IsReference(parts[n].value)
           THEN /\ "sql" \in DOMAIN out
                /\ Len(out.sql) = Len(parts)
                /\ \A n \in DOMAIN parts :
                     IF IsLiteral(parts[n]) THEN out.sql[n] = parts[n]
                     ELSE IF IsTableType(parts[n].value)
                     THEN out.sql[n] = Tok("table", "\"" \o parts[n].value.table \o "\"")
                     ELSE out.sql[n] = Tok("col", "\"" \o parts[n].value.t \o "\".\""
                                                    \o parts[n].value.name \o "\"")
           ELSE DOMAIN out = {"raised"}

C15_Witness ==
    /\ template_out # None
    /\ template_obj = Template(<<Literal("SELECT * FROM "), Interpolation(TableType("user")),
                                 Interpolation(UserText("1; DROP TABLE user"))>>)
    /\ template_out[1] = [raised |-> "Exception"]

\* ------------------------------------------------------------------------
\* More properties of topological_sort_tables
\* ------------------------------------------------------------------------
\* how many columns of t reference an input table other than t
RECURSIVE CountOtherRefs(_, _, _)
CountOtherRefs(t, cols, n) ==
    IF n > Len(cols) THEN 0
    ELSE (IF cols[n] # t /\ cols[n] \in Range(tables) THEN 1 ELSE 0) + CountOtherRefs(t, cols, n + 1)

SelfReferencing(t) == ReferencesTable(t, t)

\* C17: a foreign key of a table to itself does not count in the table's
\* in-degree, so an input with a self-referencing table and no cycle
\* between distinct tables is sorted and does not raise.
C17_SelfReferenceIgnored ==
    /\ pc = "seed" => \A t \in Range(tables) : in_degree[t] = CountOtherRefs(t, fields[t], 1)
    /\ (pc \in {"returned", "raised"} /\ (\E t \in Range(tables) : SelfReferencing(t)) /\ ~HasCycle)
          => pc = "returned"

\* the sort with every set walked in input order
RECURSIVE FifoRun(_, _, _)
FifoRun(q, deg, out) ==
    IF q = <<>> THEN out
    ELSE LET cur == Head(q)
             new_deg == [t \in DOMAIN deg |-> IF t \in dependencies[cur] THEN deg[t] - 1 ELSE deg[t]]
             ready == SelectSeq(tables, LAMBDA t : t \in dependencies[cur] /\ new_deg[t] = 0)
         IN FifoRun(Tail(q) \o ready, new_deg, Append(out, cur))

FifoOrder == FifoRun(ZeroInDegree(tables, BuildInDegree, 1), BuildInDegree, <<>>)

\* C18: the sort is deterministic with FIFO tie-breaking: the output is a
\* function of the input sequence, the tables without dependencies come
\* out in input order, and tables that become ready at the same step are
\* enqueued in input order.
C18_FifoDeterministic ==
    /\ pc = "while" /\ result = <<>> =>
          queue = SelectSeq(tables, LAMBDA t : CountRefs(fields[t], 1) = 0)
    /\ pc = "returned" => result = FifoOrder

\* ------------------------------------------------------------------------
\* More properties of rendering
\* ------------------------------------------------------------------------
\* the clause has a literal operand to bind
RECURSIVE BindsLiteral(_)
BindsLiteral(c) ==
    CASE c.op \in ComparisonOps -> ~IsColumnInfo(c.right)
      [] c.op \in {"IsNull", "IsNotNull"} -> FALSE
      [] c.op \in {"InArray", "NotInArray", "Between", "NotBetween"} -> TRUE
      [] c.op = "Not" -> BindsLiteral(c.clause)
      [] c.op \in {"And", "Or"} -> BindsLiteral(c.left) \/ BindsLiteral(c.right)

JoinBindsLiteral(join) == "on" \in DOMAIN join /\ BindsLiteral(join.on)

\* the clause compares a column with a column somewhere
RECURSIVE ComparesColumns(_)
ComparesColumns(c) ==
    CASE c.op \in ComparisonOps -> IsColumnInfo(c.right)
      [] c.op = "Not" -> ComparesColumns(c.clause)
      [] c.op \in {"And", "Or"} -> ComparesColumns(c.left) \/ ComparesColumns(c.right)
      [] OTHER -> FALSE

\* C19: a join takes indices from the shared counter only when its ON
\* clause binds literals: after joins that compare only columns, and after
\* CROSS JOINs, the counter is untouched and the first literal bound by
\* WHERE has index 0.
C19_ColumnJoinsKeepCounter ==
    (/\ Rendered /\ kind = "select"
     /\ \A n \in DOMAIN _joins : ~JoinBindsLiteral(_joins[n])
     /\ _where_clause # None /\ BindsLiteral(_where_clause[1]) /\ ~ComparesColumns(_where_clause[1])) =>
        LET text == query[1].sql
        IN /\ IndicesIn(text, JoinKeywords) = {}
           /\ 0 \in IndicesIn(text, {"WHERE"})
           /\ text[CHOOSE p \in WherePositions(text) : \A q \in WherePositions(text) : p <= q].i = 0

\* C20: an UPDATE without SET data, because set() was never called or was
\* called with an empty mapping, does not render: _build_sql fails and
\* returns no statement for execute to pass on.
NoSetData == data = None \/ data[1] = <<>>

C20_UpdateNeedsSetData ==
    (kind = "update" /\ query # None /\ NoSetData) => "raised" \in DOMAIN query[1]

\* ------------------------------------------------------------------------
\* More properties of INSERT
\* ------------------------------------------------------------------------
\* C21: an INSERT whose values() received zero rows does not render: no
\* statement with an empty many_params list is produced, by sql() or by
\* run() on its way to executemany.
C21_InsertNeedsRows ==
    (ins_stage # "InsertQuery" /\ items = <<>> /\ many_query # None) =>
        many_query[1].many_params # <<>>

\* ------------------------------------------------------------------------
\* Table.__init__ and Table.value_dict on one row  (embar/table.py)
\* ------------------------------------------------------------------------
\* Column(default=...): field -> the default, None when the column has none
ColumnDefaults ==
    [user |-> ("id" :> None) @@ ("email" :> Some(StrValue(<<"h", "i">>))),
     message |-> ("id" :> None) @@ ("user_id" :> None),
     account |-> ("id" :> None) @@ ("_token" :> Some(StrValue(<<>>)))]

\* a keyword no column of the tables is named by
UndeclaredField == "nickname"

\* type(self).__dict__ filtered by isinstance(attr, Column): the field names
DeclaredFields(t) == {c.field : c \in Range(ColumnNames[t])}

\* Table.__init__(**kwargs): the instance's attributes, or the error raised
TableInit(t, kw) ==
    LET columns == DeclaredFields(t)
        missing == {name \in columns \ DOMAIN kw : ColumnDefaults[t][name] = None}
    IN IF \E name \in DOMAIN kw : name \notin columns
       THEN [raised |-> "TypeError"]
       ELSE IF missing # {}
       THEN [raised |-> "TypeError"]
       ELSE [instance |-> [f \in columns |->
                IF f \in DOMAIN kw THEN kw[f] ELSE ColumnDefaults[t][f][1]]]

\* the keyword arguments a caller passes: values of the column's type for
\* some of the declared fields, and possibly a keyword that is no field
KwargsOf(t) ==
    LET cols == Range(ColumnNames[t])
        py(f) == IF f = UndeclaredField THEN "int" ELSE (CHOOSE c \in cols : c.field = f).py
        all == UNION {ValuesOf(c.py) : c \in cols}
    IN UNION {{kw \in [names -> all] : \A f \in names : kw[f] \in ValuesOf(py(f))} :
                names \in SUBSET (DeclaredFields(t) \cup {UndeclaredField})}

TableInitState ==
    /\ cls \in InsertTables
    /\ kwargs \in KwargsOf(cls)
    /\ new_row = None
    /\ value_dict_out = None
    /\ SortIdle
    /\ BuilderIdle
    /\ ClauseIdle
    /\ InsertIdle
    /\ SelectionIdle
    /\ TemplateIdle
    /\ DefineIdle
    /\ DdlIdle
    /\ RunIdle
    /\ MigrateIdle

exceptTableVars == <<sortVars, builderVars, clauseVars, insertVars, selectionVars, templateVars, defineVars, ddlVars, runVars, migrateVars>>

\* cls(**kwargs)
table_init ==
    /\ new_row = None
    /\ new_row' = Some(TableInit(cls, kwargs))
    /\ UNCHANGED <<cls, kwargs, value_dict_out, exceptTableVars>>

\* self.value_dict()
value_dict ==
    /\ new_row # None
    /\ "instance" \in DOMAIN new_row[1]
    /\ value_dict_out = None
    /\ value_dict_out' = Some(ValueDict(ColumnNames[cls], new_row[1].instance, 1))
    /\ UNCHANGED <<cls, kwargs, new_row, exceptTableVars>>

TableNext ==
    \/ table_init
    \/ value_dict

SpecTable == TableInitState /\ [][TableNext]_vars

\* C22: a row is rejected when a keyword names no declared column or when
\* a declared column without a default has no value, and a missing column
\* with a default gets the default; value_dict() of a constructed row has
\* exactly one entry per declared column, keyed by the column's DB name.
C22_RowsAreComplete ==
    new_row # None =>
        LET r == new_row[1]
            columns == DeclaredFields(cls)
            undeclared == \E name \in DOMAIN kwargs : name \notin columns
            unfilled == \E name \in columns \ DOMAIN kwargs : ColumnDefaults[cls][name] = None
        IN /\ ("raised" \in DOMAIN r) <=> (undeclared \/ unfilled)
           /\ "instance" \in DOMAIN r =>
                /\ \A f \in columns :
                      r.instance[f] = IF f \in DOMAIN kwargs THEN kwargs[f] ELSE ColumnDefaults[cls][f][1]
                /\ value_dict_out # None =>
                      /\ DOMAIN value_dict_out[1] = {c.name : c \in Range(ColumnNames[cls])}
                      /\ \A c \in Range(ColumnNames[cls]) : value_dict_out[1][c.name] = r.instance[c.field]

\* ------------------------------------------------------------------------
\* Class statements with fk columns  (pudl/column/common.py)
\* ------------------------------------------------------------------------
\* Column.__set_name__ on the columns i.. of a class statement, in
\* declaration order: a column with _fk calls ref() (line 85), which looks
\* the referenced class up by name and raises NameError when the module
\* has not bound that name yet.  Returns the number of resolver calls and
\* whether one of them raised.
RECURSIVE SetNames(_, _, _)
SetNames(cols, i, names) ==
    IF i > Len(cols) THEN [raised |-> FALSE, calls |-> 0]
    ELSE IF cols[i] = "none" THEN SetNames(cols, i + 1, names)
    ELSE IF cols[i] \notin names THEN [raised |-> TRUE, calls |-> 1]
    ELSE LET rest == SetNames(cols, i + 1, names)
         IN [raised |-> rest.raised, calls |-> rest.calls + 1]

DefineInit ==
    /\ class_order \in InputOrders
    /\ fk_targets \in {f \in Schemas : \A t \in TableNames \ Range(class_order) : f[t] = <<>>}
    /\ bound_names = {}
    /\ next_class = 1
    /\ class_raised = None
    /\ resolver_calls = 0
    /\ SortIdle
    /\ BuilderIdle
    /\ ClauseIdle
    /\ InsertIdle
    /\ SelectionIdle
    /\ TemplateIdle
    /\ TableIdle
    /\ DdlIdle
    /\ RunIdle
    /\ MigrateIdle

exceptDefineVars == <<sortVars, builderVars, clauseVars, insertVars, selectionVars, templateVars, tableVars, ddlVars, runVars, migrateVars>>

\* class <name>(Table): the body runs, type.__new__ calls __set_name__ on
\* every column, and only then is the class bound to its name
class_statement ==
    /\ class_raised = None
    /\ next_class <= Len(class_order)
    /\ LET name == class_order[next_class]
           outcome == SetNames(fk_targets[name], 1, bound_names)
       IN /\ resolver_calls' = resolver_calls + outcome.calls
          /\ IF outcome.raised
             THEN /\ class_raised' = Some("NameError")
                  /\ UNCHANGED <<bound_names, next_class>>
             ELSE /\ bound_names' = bound_names \cup {name}
                  /\ next_class' = next_class + 1
                  /\ UNCHANGED class_raised
    /\ UNCHANGED <<class_order, fk_targets, exceptDefineVars>>

DefineNext == class_statement

SpecDefine == DefineInit /\ [][DefineNext]_vars

\* C23: a class statement never invokes the resolver of an fk column, so
\* it succeeds whether the referenced table is defined before it, after
\* it, or is the table being defined.
C23_ForwardReferences ==
    /\ class_raised = None
    /\ resolver_calls = 0

\* ------------------------------------------------------------------------
\* ColumnInfo.ddl and Table.ddl  (embar/column/base.py, embar/table.py)
\* ------------------------------------------------------------------------
\* DDL text is a sequence of pieces; every space the f-strings put
\* between two fragments is a piece of its own
Space == Tok("space", " ")

UpperLetters ==
    <<"A", "B", "C", "D", "E", "F", "G", "H", "I", "J", "K", "L", "M",
      "N", "O", "P", "Q", "R", "S", "T", "U", "V", "W", "X", "Y", "Z">>

LowerLetters ==
    <<"a", "b", "c", "d", "e", "f", "g", "h", "i", "j", "k", "l", "m",
      "n", "o", "p", "q", "r", "s", "t", "u", "v", "w", "x", "y", "z">>

IsUpper(c) == c \in Range(UpperLetters)

Lower(c) == IF IsUpper(c) THEN LowerLetters[CHOOSE n \in DOMAIN UpperLetters : UpperLetters[n] = c] ELSE c

RECURSIVE LStrip(_, _)
LStrip(chars, c) == IF chars # <<>> /\ Head(chars) = c THEN LStrip(Tail(chars), c) ELSE chars

RECURSIVE UnderscoreUpper(_)
UnderscoreUpper(chars) ==
    IF chars = <<>> THEN <<>>
    ELSE (IF IsUpper(Head(chars)) THEN <<"_", Lower(Head(chars))>> ELSE <<Head(chars)>>)
         \o UnderscoreUpper(Tail(chars))

\* __init_subclass__ lines 45-48: the table name when the config gives none
SnakeCase(chars) == LStrip(UnderscoreUpper(chars), "_")

\* TableBase.fqn() over a name kept as characters
QuotedChars(chars) == <<"\"">> \o chars \o <<"\"">>

ColumnInfo(name, col_type, primary, not_null, default, ref, on_delete) ==
    [name |-> name, col_type |-> col_type, primary |-> primary, not_null |-> not_null,
     default |-> default, ref |-> ref, on_delete |-> on_delete]

\* the fragments of lines 63-67; an absent fragment is the empty string
DefaultFragment(self) ==
    IF self.default # None
    THEN <<Tok("clause", "DEFAULT"), Space, Tok("raw", "'" \o self.default[1] \o "'")>>
    ELSE <<>>

NullableFragment(self) == IF self.not_null THEN <<Tok("clause", "NOT NULL")>> ELSE <<>>

PrimaryFragment(self) == IF self.primary THEN <<Tok("clause", "PRIMARY KEY")>> ELSE <<>>

ReferenceFragment(self) ==
    IF self.ref # None
    THEN <<Tok("clause", "REFERENCES"), Space, Tok("table", "\"" \o self.ref[1].t \o "\""),
           Tok("op", "("), Tok("setcol", "\"" \o self.ref[1].name \o "\""), Tok("op", ")")>>
    ELSE <<>>

OnDeleteFragment(self) ==
    IF self.on_delete # None
    THEN <<Tok("clause", "ON DELETE"), Space, Tok("raw", self.on_delete[1])>>
    ELSE <<>>

\* ddl() with PRIMARY KEY ahead of NOT NULL
ColumnInfoDdlPrimaryFirst(self) ==
    <<Tok("setcol", "\"" \o self.name \o "\""), Space, Tok("raw", self.col_type), Space>>
    \o DefaultFragment(self) \o <<Space>>
    \o PrimaryFragment(self) \o <<Space>>
    \o NullableFragment(self) \o <<Space>>
    \o ReferenceFragment(self) \o <<Space>>
    \o OnDeleteFragment(self)

\* ColumnInfo.ddl, line 68: seven fields with one space between each two
ColumnInfoDdl(self) ==
    <<Tok("setcol", "\"" \o self.name \o "\""), Space, Tok("raw", self.col_type), Space>>
    \o DefaultFragment(self) \o <<Space>>
    \o NullableFragment(self) \o <<Space>>
    \o PrimaryFragment(self) \o <<Space>>
    \o ReferenceFragment(self) \o <<Space>>
    \o OnDeleteFragment(self)

\* Table.ddl lines 104-110: the ddl of every column whose attribute name
\* has no leading underscore, joined by ","
RECURSIVE ColumnsDdl(_, _, _)
ColumnsDdl(cols, n, first) ==
    IF n > Len(cols) THEN <<>>
    ELSE IF StartsWithUnderscore(cols[n].field) THEN ColumnsDdl(cols, n + 1, first)
    ELSE (IF first THEN <<>> ELSE <<Tok("op", ",")>>)
         \o ColumnInfoDdl(cols[n].info)
         \o ColumnsDdl(cols, n + 1, FALSE)

\* Table.ddl line 111
TableDdl(name, cols) ==
    <<Tok("clause", "CREATE TABLE IF NOT EXISTS"), Space, Tok("table", QuotedChars(name)), Space,
      Tok("op", "(")>>
    \o ColumnsDdl(cols, 1, TRUE)
    \o <<Tok("op", ")"), Tok("op", ";")>>

\* the inputs: class names, and columns with every combination of the
\* optional attributes
ClassNames ==
    {<<"U", "s", "e", "r">>,
     <<"T", "a", "b", "l", "e", "W", "i", "t", "h", "V", "a", "r", "c", "h", "a", "r">>}

SqlTypeOf(name) == IF name = "status" THEN "VARCHAR(10)" ELSE "TEXT"

DdlColumns(name) ==
    {[field |-> name,
      info |-> ColumnInfo(name, SqlTypeOf(name), primary, not_null, default, ref, on_delete)] :
        primary \in BOOLEAN, not_null \in BOOLEAN, default \in {None, Some("x")},
        ref \in {None, Some(UserId)}, on_delete \in {None, Some("cascade")}}

DdlTables ==
    {<<c>> : c \in DdlColumns("id") \cup DdlColumns("status") \cup DdlColumns("_token")}
    \cup {<<c, d>> : c \in DdlColumns("id") \cup DdlColumns("_token"), d \in DdlColumns("status")}

DdlInit ==
    /\ class_name \in ClassNames
    /\ table_name = SnakeCase(class_name)
    /\ ddl_columns \in DdlTables
    /\ column_ddl_out = None
    /\ table_ddl_out = None
    /\ SortIdle
    /\ BuilderIdle
    /\ ClauseIdle
    /\ InsertIdle
    /\ SelectionIdle
    /\ TemplateIdle
    /\ TableIdle
    /\ DefineIdle
    /\ RunIdle
    /\ MigrateIdle

exceptDdlVars == <<sortVars, builderVars, clauseVars, insertVars, selectionVars, templateVars,
                   tableVars, defineVars, runVars, migrateVars>>

\* cls.<field>.info.ddl()
column_ddl ==
    /\ column_ddl_out = None
    /\ \E n \in DOMAIN ddl_columns :
         column_ddl_out' = Some([sql |-> ColumnInfoDdl(ddl_columns[n].info), of |-> n])
    /\ UNCHANGED <<class_name, table_name, ddl_columns, table_ddl_out, exceptDdlVars>>

\* cls.ddl()
table_ddl ==
    /\ table_ddl_out = None
    /\ table_ddl_out' = Some(TableDdl(table_name, ddl_columns))
    /\ UNCHANGED <<class_name, table_name, ddl_columns, column_ddl_out, exceptDdlVars>>

DdlNext ==
    \/ column_ddl
    \/ table_ddl

SpecDdl == DdlInit /\ [][DdlNext]_vars

\* ------------------------------------------------------------------------
\* Properties of the DDL
\* ------------------------------------------------------------------------
WithoutSpaces(text) == SelectSeq(text, LAMBDA tok : tok.k # "space")

\* the clause keywords of a text, in text order
RECURSIVE Keywords(_)
Keywords(text) ==
    IF text = <<>> THEN <<>>
    ELSE (IF Head(text).k = "clause" THEN <<Head(text).v>> ELSE <<>>) \o Keywords(Tail(text))

\* what follows the keyword in the text, spaces aside: the next pieces up
\* to the next keyword
RECURSIVE UpToKeyword(_)
UpToKeyword(text) ==
    IF text = <<>> \/ Head(text).k = "clause" THEN <<>>
    ELSE <<Head(text).v>> \o UpToKeyword(Tail(text))

ArgumentsOf(text, keyword) ==
    LET words == WithoutSpaces(text)
        p == CHOOSE q \in DOMAIN words : words[q] = Tok("clause", keyword)
    IN UpToKeyword(SubSeq(words, p + 1, Len(words)))

\* C24: ColumnInfo.ddl() renders "<name>" <sqlType> and then, in this
\* order, DEFAULT '<default>', NOT NULL, PRIMARY KEY, REFERENCES
\* "<table>"("<col>"), ON DELETE <action>; each of the five is present
\* exactly when its attribute is set.
C24_ColumnDdlFragments ==
    column_ddl_out # None =>
        LET self == ddl_columns[column_ddl_out[1].of].info
            text == column_ddl_out[1].sql
            words == WithoutSpaces(text)
        IN /\ Len(words) >= 2
           /\ words[1].v = "\"" \o self.name \o "\""
           /\ words[2].v = self.col_type
           /\ Keywords(text) =
                (IF self.default # None THEN <<"DEFAULT">> ELSE <<>>)
                \o (IF self.not_null THEN <<"NOT NULL">> ELSE <<>>)
                \o (IF self.primary THEN <<"PRIMARY KEY">> ELSE <<>>)
                \o (IF self.ref # None THEN <<"REFERENCES">> ELSE <<>>)
                \o (IF self.on_delete # None THEN <<"ON DELETE">> ELSE <<>>)
           /\ self.default # None =>
                ArgumentsOf(text, "DEFAULT") = <<"'" \o self.default[1] \o "'">>
           /\ self.ref # None =>
                ArgumentsOf(text, "REFERENCES")
                    = <<"\"" \o self.ref[1].t \o "\"", "(", "\"" \o self.ref[1].name \o "\"", ")">>
           /\ self.on_delete # None =>
                ArgumentsOf(text, "ON DELETE") = <<self.on_delete[1]>>

\* the primary, not-null TEXT column "id" of the claim, rendered
C24_Witness ==
    /\ column_ddl_out # None
    /\ LET self == ddl_columns[column_ddl_out[1].of].info
       IN /\ self.name = "id" /\ self.col_type = "TEXT"
          /\ self.primary /\ self.not_null
          /\ self.default = None /\ self.ref = None /\ self.on_delete = None
          /\ Keywords(column_ddl_out[1].sql) = <<"NOT NULL", "PRIMARY KEY">>

\* C25: Table.ddl() is CREATE TABLE IF NOT EXISTS "<table>" (<column
\* ddl>, ...); with the snake-cased class name as the table name and
\* without padding: no two spaces in a row and no space before "," or ")".
C25_TableDdlExact ==
    table_ddl_out # None =>
        LET text == table_ddl_out[1]
        IN /\ text[1] = Tok("clause", "CREATE TABLE IF NOT EXISTS")
           /\ text[3] = Tok("table", QuotedChars(table_name))
           /\ text[Len(text)] = Tok("op", ";")
           /\ \A p \in DOMAIN text :
                (text[p] = Space /\ p < Len(text)) =>
                    /\ text[p + 1] # Space
                    /\ text[p + 1] # Tok("op", ",")
                    /\ text[p + 1] # Tok("op", ")")

\* ------------------------------------------------------------------------
\* run() and __await__ of a built query  (embar/query/select.py, insert.py)
\* ------------------------------------------------------------------------
Clients == {"sync", "async"}

QueryClasses == {"SelectQueryReady", "InsertQueryReady", "InsertQueryReturning"}

\* the client method the query class sends its statement with
DbMethod(q) == IF q = "InsertQueryReady" THEN "executemany" ELSE "fetch"

\* run() that sends the statement whatever the client is
RunCallsAnyClient(db, q) == <<DbMethod(q)>>

\* run(): the client calls made; isinstance(self._db, DbBase) guards them
RunCalls(db, q) == IF db = "sync" THEN <<DbMethod(q)>> ELSE <<>>

\* run(): the results on a sync client, the query itself on an async one
RunReturns(db) == IF db = "sync" THEN "results" ELSE "self"

RunInit ==
    /\ client \in Clients
    /\ query_class \in QueryClasses
    /\ db_log = <<>>
    /\ n_run = 0
    /\ n_awaited = 0
    /\ coroutines = 0
    /\ returned = None
    /\ SortIdle
    /\ BuilderIdle
    /\ ClauseIdle
    /\ InsertIdle
    /\ SelectionIdle
    /\ TemplateIdle
    /\ TableIdle
    /\ DefineIdle
    /\ DdlIdle
    /\ MigrateIdle

exceptRunVars == <<sortVars, builderVars, clauseVars, insertVars, selectionVars, templateVars,
                   tableVars, defineVars, ddlVars, migrateVars>>

\* query.run()
run ==
    /\ n_run + n_awaited + coroutines < MaxOps
    /\ n_run' = n_run + 1
    /\ db_log' = db_log \o RunCalls(client, query_class)
    /\ returned' = Some([op |-> "run", value |-> RunReturns(client)])
    /\ UNCHANGED <<client, query_class, n_awaited, coroutines, exceptRunVars>>

\* query.__await__(): renders the statement and creates the coroutine
\* awaitable(); nothing of its body has run yet
dunder_await ==
    /\ n_run + n_awaited + coroutines < MaxOps
    /\ coroutines' = coroutines + 1
    /\ UNCHANGED <<client, query_class, db_log, n_run, n_awaited, returned, exceptRunVars>>

\* the await expression drives awaitable() to its end: one call of the
\* client method, on either kind of client
awaitable ==
    /\ coroutines > 0
    /\ coroutines' = coroutines - 1
    /\ n_awaited' = n_awaited + 1
    /\ db_log' = Append(db_log, DbMethod(query_class))
    /\ returned' = Some([op |-> "await", value |-> "results"])
    /\ UNCHANGED <<client, query_class, n_run, exceptRunVars>>

RunNext ==
    \/ run
    \/ dunder_await
    \/ awaitable

SpecRun == RunInit /\ [][RunNext]_vars

NoColumnComparison ==
    /\ \A n \in DOMAIN _joins : "on" \in DOMAIN _joins[n] => ~ComparesColumns(_joins[n].on)
    /\ _where_clause # None => ~ComparesColumns(_where_clause[1])
    /\ _having_clause # None => ~ComparesColumns(_having_clause[1])

FirstIndexIsZero ==
    (Rendered /\ NoColumnComparison /\ PlaceholderPositions(query[1].sql) # {}) =>
        \E p \in PlaceholderPositions(query[1].sql) : query[1].sql[p].i = 0

BuilderUnchanged ==
    UNCHANGED <<kind, table, _distinct, _joins, _where_clause, _group_clause, _having_clause,
                _order_clause, _limit_value, _offset_value, data>>

MigrateSchemas ==
    {[user |-> <<>>, message |-> <<"user">>, tag |-> <<"message">>],
     [user |-> <<>>, message |-> <<"user", "user">>, tag |-> <<>>],
     [user |-> <<"user">>, message |-> <<"user">>, tag |-> <<>>],
     [user |-> <<"message">>, message |-> <<"user">>, tag |-> <<>>],
     [user |-> <<>>, message |-> <<>>, tag |-> <<"user", "message">>]}

\* dir(schema) lists the names in alphabetical order
ModuleEnums == {<<>>, <<"StatusEnum">>, <<"RoleEnum", "StatusEnum">>}

\* migrates: the enums argument of the migrate call that ends it;
\* Db passes the enums it collected (line 66), AsyncDb passes none (line 139)
MigratesEnumsArg(db, enums) == IF db = "sync" THEN Some(enums) ELSE None

\* migrate lines 45-48 and 117-120: the DDL of every enum, when enums were given
EnumStatements(enums) ==
    IF enums = None THEN <<>> ELSE [n \in DOMAIN enums[1] |-> Tok("enum", enums[1][n])]

\* the number of table statements the connection has executed
TablesExecuted == Len(SelectSeq(conn_log, LAMBDA stmt : stmt.k = "table"))

MigrateInit ==
    /\ mig_client \in Clients
    /\ entry \in {"migrate", "migrates"}
    /\ module_enums \in ModuleEnums
    /\ enums_arg \in (IF entry = "migrate" THEN {None, Some(module_enums)} ELSE {None})
    /\ conn_log = <<>>
    /\ mig_pc = entry
    /\ tables \in InputOrders
    /\ \E schema \in MigrateSchemas :
         fields = [user |-> IF "user" \in Range(tables) THEN schema.user ELSE <<>>,
                   message |-> IF "message" \in Range(tables) THEN schema.message ELSE <<>>,
                   tag |-> IF "tag" \in Range(tables) THEN schema.tag ELSE <<>>]
    /\ dependencies = [r \in TableNames |-> {}]
    /\ in_degree = [t \in Range(tables) |-> 0]
    /\ queue = <<>>
    /\ result = <<>>
    /\ current = "none"
    /\ pending = {}
    /\ pc = "idle"
    /\ BuilderIdle
    /\ ClauseIdle
    /\ InsertIdle
    /\ SelectionIdle
    /\ TemplateIdle
    /\ TableIdle
    /\ DefineIdle
    /\ DdlIdle
    /\ RunIdle

exceptMigrateVars == <<builderVars, clauseVars, insertVars, selectionVars, templateVars,
                       tableVars, defineVars, ddlVars, runVars>>

\* migrates lines 56-67 and 129-140: collect the tables and the enums of
\* the module, then call migrate
migrates ==
    /\ mig_pc = "migrates"
    /\ enums_arg' = MigratesEnumsArg(mig_client, module_enums)
    /\ mig_pc' = "migrate"
    /\ UNCHANGED <<mig_client, entry, module_enums, conn_log, sortVars, exceptMigrateVars>>

\* migrate lines 45-50: the enum DDL, then the call of topological_sort_tables
execute_enums ==
    /\ mig_pc = "migrate"
    /\ conn_log' = conn_log \o EnumStatements(enums_arg)
    /\ mig_pc' = "sort"
    /\ pc' = "build"
    /\ UNCHANGED <<mig_client, entry, module_enums, enums_arg, exceptMigrateVars,
                   tables, fields, dependencies, in_degree, queue, result, current, pending>>

\* migrate lines 51-52: one iteration of the loop over the sorted tables
execute_table ==
    /\ mig_pc = "sort"
    /\ pc = "returned"
    /\ TablesExecuted < Len(result)
    /\ conn_log' = Append(conn_log, Tok("table", result[TablesExecuted + 1]))
    /\ UNCHANGED <<mig_client, entry, module_enums, enums_arg, mig_pc, sortVars, exceptMigrateVars>>

\* migrate lines 53-54
commit ==
    /\ mig_pc = "sort"
    /\ pc = "returned"
    /\ TablesExecuted = Len(result)
    /\ conn_log' = Append(conn_log, Tok("commit", "commit"))
    /\ mig_pc' = "done"
    /\ UNCHANGED <<mig_client, entry, module_enums, enums_arg, sortVars, exceptMigrateVars>>

\* the ValueError of topological_sort_tables leaves migrate at line 50
migrate_raises ==
    /\ mig_pc = "sort"
    /\ pc = "raised"
    /\ mig_pc' = "raised"
    /\ UNCHANGED <<mig_client, entry, module_enums, enums_arg, conn_log, sortVars, exceptMigrateVars>>

MigrateNext ==
    \/ migrates
    \/ execute_enums
    \/ BuildGraph
    \/ SeedQueue
    \/ PopLeft
    \/ VisitDependent
    \/ EndFor
    \/ RaiseCircular
    \/ ReturnResult
    \/ execute_table
    \/ commit
    \/ migrate_raises

SpecMigrate == MigrateInit /\ [][MigrateNext]_vars

\* ------------------------------------------------------------------------
\* Properties of the migrations
\* ------------------------------------------------------------------------
\* C28: migrate executes the CREATE TABLE of every given table exactly
\* once, a referenced table before every other table referencing it,
\* whatever the order of the argument, and commits only after the last of
\* them; only a cycle between distinct tables stops it.
C28_MigrateInDependencyOrder ==
    /\ Tok("commit", "commit") \in Range(conn_log) =>
          /\ conn_log[Len(conn_log)] = Tok("commit", "commit")
          /\ TablesExecuted = Len(tables)
    /\ (mig_pc \in {"done", "raised"} /\ ~HasCycle) =>
          LET executed == PiecesOf(conn_log, "table")
          IN /\ mig_pc = "done"
             /\ IsPermutation(executed, tables)
             /\ \A t, r \in Range(tables) :
                   (t # r /\ ReferencesTable(t, r)) => IndexIn(executed, r) < IndexIn(executed, t)

\* C30: migrates on either client executes the DDL of every PgEnum
\* subclass of the module, all of it before the first table DDL; the
\* table statements are those of the sorted tables, in their order.
C30_MigratesExecutesEnums ==
    (entry = "migrates" /\ mig_pc = "done") =>
        /\ PiecesOf(conn_log, "enum") = module_enums
        /\ \A p, q \in DOMAIN conn_log :
              (conn_log[p].k = "enum" /\ conn_log[q].k = "table") => p < q
        /\ PiecesOf(conn_log, "table") = result

\* ------------------------------------------------------------------------
\* The boolean structure of a rendered condition
\* ------------------------------------------------------------------------
\* a tree of And, Or and Not over the atoms "user"."id" = <literal>
RECURSIVE IsBooleanTree(_)
IsBooleanTree(c) ==
    CASE c.op = "Eq" -> ~IsColumnInfo(c.right)
      [] c.op = "Not" -> IsBooleanTree(c.clause)
      [] c.op \in {"And", "Or"} -> IsBooleanTree(c.left) /\ IsBooleanTree(c.right)
      [] OTHER -> FALSE

\* the truth values of the atoms, by the literal they compare with
Valuations == [LiteralValues -> BOOLEAN]

\* the value of the tree under a valuation of its atoms
RECURSIVE TreeValue(_, _)
TreeValue(c, val) ==
    CASE c.op = "Eq" -> val[c.right.value]
      [] c.op = "Not" -> ~TreeValue(c.clause, val)
      [] c.op = "And" -> TreeValue(c.left, val) /\ TreeValue(c.right, val)
      [] c.op = "Or" -> TreeValue(c.left, val) \/ TreeValue(c.right, val)

\* the value of the text read with SQL precedence: NOT binds tighter than
\* AND, AND tighter than OR, parentheses group; an atom is the three
\* pieces <column> = <placeholder>, valued by the literal bound to it
RECURSIVE SqlOr(_, _, _, _)
RECURSIVE SqlOrRest(_, _, _, _)
RECURSIVE SqlAnd(_, _, _, _)
RECURSIVE SqlAndRest(_, _, _, _)
RECURSIVE SqlNot(_, _, _, _)
RECURSIVE SqlPrimary(_, _, _, _)

SqlPrimary(text, params, val, p) ==
    IF text[p] = Tok("op", "(")
    THEN LET inner == SqlOr(text, params, val, p + 1)
         IN Parsed(inner.value, inner.pos + 1)
    ELSE Parsed(val[params[text[p + 2].v]], p + 3)

SqlNot(text, params, val, p) ==
    IF text[p] = Tok("op", "NOT")
    THEN LET inner == SqlNot(text, params, val, p + 1)
         IN Parsed(~inner.value, inner.pos)
    ELSE SqlPrimary(text, params, val, p)

SqlAndRest(text, params, val, acc) ==
    IF acc.pos <= Len(text) /\ text[acc.pos] = Tok("op", "AND")
    THEN LET next == SqlNot(text, params, val, acc.pos + 1)
         IN SqlAndRest(text, params, val, Parsed(acc.value /\ next.value, next.pos))
    ELSE acc

SqlAnd(text, params, val, p) == SqlAndRest(text, params, val, SqlNot(text, params, val, p))

SqlOrRest(text, params, val, acc) ==
    IF acc.pos <= Len(text) /\ text[acc.pos] = Tok("op", "OR")
    THEN LET next == SqlAnd(text, params, val, acc.pos + 1)
         IN SqlOrRest(text, params, val, Parsed(acc.value \/ next.value, next.pos))
    ELSE acc

SqlOr(text, params, val, p) == SqlOrRest(text, params, val, SqlAnd(text, params, val, p))

TextValue(where_data, val) == SqlOr(where_data.sql, where_data.params, val, 1).value

\* C29: the rendered text of a tree of And, Or and Not over atomic
\* conditions, read with SQL precedence, is the same boolean function of
\* the atoms as the tree.
C29_BooleanStructureKept ==
    (rendered # None /\ IsBooleanTree(clause[1])) =>
        \A val \in Valuations : TextValue(rendered[1], val) = TreeValue(clause[1], val)

====
